---------------------------- MODULE Spec2Model ----------------------------
(***************************************************************************)
(* Car lease calculator: the pricing pipeline (src/lib/leaseData.ts,       *)
(* ComparisonView.tsx, the analysis route of src/app/page.tsx), the        *)
(* comparison view's override / selection / ranking state and the          *)
(* calculator's collection state.                                          *)
(*                                                                         *)
(* JavaScript numbers are modelled as exact rationals extended with NaN,   *)
(* +Infinity, -Infinity and `undefined'.  Where the rounding of IEEE       *)
(* doubles matters (the rate and discount conversions) the same code is    *)
(* modelled again in double arithmetic; the sign of zero is not modelled.  *)
(***************************************************************************)
EXTENDS Integers, Sequences, FiniteSets, TLC

(***************************************************************************)
(* JavaScript numbers                                                      *)
(***************************************************************************)
Fin(n, d) == [k |-> "fin", n |-> n, d |-> d]
N(i) == Fin(i, 1)
NaN == [k |-> "nan", n |-> 0, d |-> 1]
PosInf == [k |-> "inf", n |-> 1, d |-> 0]
NegInf == [k |-> "inf", n |-> -1, d |-> 0]
Undef == [k |-> "undef", n |-> 0, d |-> 1]
Null == [k |-> "null", n |-> 0, d |-> 1]

Abs(i) == IF i < 0 THEN -i ELSE i
Sgn(i) == IF i < 0 THEN -1 ELSE IF i > 0 THEN 1 ELSE 0

RECURSIVE GCD(_, _)
GCD(a, b) == IF b = 0 THEN a ELSE GCD(b, a % b)

NormBy(n, d, g) ==
  IF d < 0 THEN Fin((-n) \div g, (-d) \div g) ELSE Fin(n \div g, d \div g)
\* the rational n/d (d # 0) in lowest terms with a positive denominator
Norm(n, d) == IF d = 1 THEN Fin(n, 1) ELSE NormBy(n, d, GCD(Abs(n), Abs(d)))

\* ToNumber: undefined becomes NaN, null becomes 0
ToNumber(x) == IF x.k = "undef" THEN NaN ELSE IF x.k = "null" THEN Fin(0, 1) ELSE x

IsNaN(x) == ToNumber(x).k = "nan"
IsFinite(x) == x.k = "fin"
\* a value JavaScript treats as true in `a || b' and `a ? b : c'
Truthy(x) == (x.k = "fin" /\ x.n # 0) \/ x.k = "inf"
\* a || b
Or(a, b) == IF Truthy(a) THEN a ELSE b

\* the operators below take numbers (after ToNumber)
NegNum(a) == IF a.k = "nan" THEN NaN ELSE [a EXCEPT !.n = -a.n]
\* -a
Neg(a) == NegNum(ToNumber(a))

\* the sum of two rationals whose denominators have the gcd g
AddFin(a, b, g) == Norm(a.n * (b.d \div g) + b.n * (a.d \div g), (a.d \div g) * b.d)
AddNum(a, b) ==
  IF a.k = "nan" \/ b.k = "nan" THEN NaN
  ELSE IF a.k = "inf" /\ b.k = "inf" THEN (IF a.n = b.n THEN a ELSE NaN)
  ELSE IF a.k = "inf" THEN a
  ELSE IF b.k = "inf" THEN b
  ELSE IF a.d = b.d THEN Norm(a.n + b.n, a.d)
  ELSE AddFin(a, b, GCD(a.d, b.d))
\* a + b
Add(a, b) == AddNum(ToNumber(a), ToNumber(b))

\* a - b
Sub(a, b) == Add(a, Neg(b))

\* the product of two rationals, reduced crosswise by g1 and g2 first
MulFin(a, b, g1, g2) ==
  Norm((a.n \div g1) * (b.n \div g2), (a.d \div g2) * (b.d \div g1))
MulNum(a, b) ==
  IF a.k = "nan" \/ b.k = "nan" THEN NaN
  ELSE IF a.k = "inf" \/ b.k = "inf"
       THEN (IF a.n = 0 \/ b.n = 0 THEN NaN
             ELSE IF Sgn(a.n) * Sgn(b.n) > 0 THEN PosInf ELSE NegInf)
  ELSE IF a.d = 1 /\ b.d = 1 THEN Fin(a.n * b.n, 1)
  ELSE MulFin(a, b, GCD(Abs(a.n), b.d), GCD(Abs(b.n), a.d))
\* a * b
Mul(a, b) == MulNum(ToNumber(a), ToNumber(b))

DivNum(a, b) ==
  IF a.k = "nan" \/ b.k = "nan" THEN NaN
  ELSE IF a.k = "inf"
       THEN (IF b.k = "inf" THEN NaN
             ELSE IF Sgn(a.n) * (IF b.n < 0 THEN -1 ELSE 1) > 0 THEN PosInf ELSE NegInf)
  ELSE IF b.k = "inf" THEN N(0)
  ELSE IF b.n = 0
       THEN (IF a.n = 0 THEN NaN ELSE IF a.n > 0 THEN PosInf ELSE NegInf)
  ELSE MulNum(a, Norm(b.d, b.n))
\* a / b
Div(a, b) == DivNum(ToNumber(a), ToNumber(b))

SignNum(v) == IF v.k = "nan" THEN 0 ELSE Sgn(v.n)
\* sign of a comparator result as Array.prototype.sort reads it: NaN counts as 0
CmpSign(v) == SignNum(ToNumber(v))

\* a < b on numbers (false when either is NaN)
Less(a, b) == CmpSign(Sub(a, b)) < 0

(***************************************************************************)
(* Strings are sequences of one-character strings; parseFloat              *)
(***************************************************************************)
Digits == <<"0", "1", "2", "3", "4", "5", "6", "7", "8", "9">>
IsDigit(c) == \E i \in 1..10 : Digits[i] = c
DigitVal(c) == (CHOOSE i \in 1..10 : Digits[i] = c) - 1

RECURSIVE SkipSpaces(_, _)
SkipSpaces(s, i) == IF i <= Len(s) /\ s[i] = " " THEN SkipSpaces(s, i + 1) ELSE i

RECURSIVE DigitRun(_, _)
\* number of consecutive digits of s from position i
DigitRun(s, i) == IF i <= Len(s) /\ IsDigit(s[i]) THEN 1 + DigitRun(s, i + 1) ELSE 0

RECURSIVE DigitsValue(_, _, _, _)
\* value of the len digits of s from position i, after the digits worth acc
DigitsValue(s, i, len, acc) ==
  IF len = 0 THEN acc ELSE DigitsValue(s, i + 1, len - 1, acc * 10 + DigitVal(s[i]))

RECURSIVE Pow10(_)
Pow10(e) == IF e = 0 THEN 1 ELSE 10 * Pow10(e - 1)

\* the digits found (il of the integer part from i1, fl of the fraction) as a number
ParseValue(s, neg, i1, il, fl) ==
  IF il = 0 /\ fl = 0 THEN NaN
  ELSE IF neg
  THEN Neg(Norm(DigitsValue(s, i1, il, 0) * Pow10(fl)
                + DigitsValue(s, i1 + il + 1, fl, 0), Pow10(fl)))
  ELSE Norm(DigitsValue(s, i1, il, 0) * Pow10(fl)
            + DigitsValue(s, i1 + il + 1, fl, 0), Pow10(fl))

ParseFraction(s, neg, i1, il) ==
  ParseValue(s, neg, i1, il,
             IF i1 + il <= Len(s) /\ s[i1 + il] = "."
             THEN DigitRun(s, i1 + il + 1) ELSE 0)

ParseSigned(s, i0) ==
  ParseFraction(s, i0 <= Len(s) /\ s[i0] = "-",
                IF i0 <= Len(s) /\ (s[i0] = "-" \/ s[i0] = "+") THEN i0 + 1 ELSE i0,
                DigitRun(s, IF i0 <= Len(s) /\ (s[i0] = "-" \/ s[i0] = "+")
                            THEN i0 + 1 ELSE i0))

\* parseFloat: leading blanks, an optional sign, digits, an optional fraction;
\* the longest such prefix is the value, and no digit at all gives NaN
ParseFloat(s) == ParseSigned(s, SkipSpaces(s, 1))

(***************************************************************************)
(* IEEE 754 doubles.  The operations of a JavaScript number round to the   *)
(* nearest double, ties to even.  A natural number is a sequence of limbs  *)
(* in base 2^15, least significant first, without a leading zero limb; a   *)
(* double is sign * mantissa * 2^exponent with a mantissa of 53 bits       *)
(* (2^52 <= mantissa < 2^53) or zero.  Exponents are not bounded: no       *)
(* value of the model comes near overflow or the subnormal range.          *)
(***************************************************************************)
RECURSIVE BigOfInt(_)
\* the limbs of i >= 0
BigOfInt(i) == IF i = 0 THEN <<>> ELSE <<i % 32768>> \o BigOfInt(i \div 32768)

RECURSIVE BigTrim(_)
\* a without its leading zero limbs
BigTrim(a) ==
  IF a = <<>> THEN a
  ELSE IF a[Len(a)] = 0 THEN BigTrim(SubSeq(a, 1, Len(a) - 1))
  ELSE a

BigLimb(a, i) == IF i <= Len(a) THEN a[i] ELSE 0

RECURSIVE BigAddFrom(_, _, _, _)
\* limbs i.. of a + b + carry
BigAddFrom(a, b, i, carry) ==
  IF i > Len(a) /\ i > Len(b)
  THEN (IF carry = 0 THEN <<>> ELSE <<carry>>)
  ELSE <<(BigLimb(a, i) + BigLimb(b, i) + carry) % 32768>>
       \o BigAddFrom(a, b, i + 1, (BigLimb(a, i) + BigLimb(b, i) + carry) \div 32768)

BigAdd(a, b) == BigAddFrom(a, b, 1, 0)

RECURSIVE BigSubFrom(_, _, _, _)
\* limbs i.. of a - b - borrow, for a >= b
BigSubFrom(a, b, i, borrow) ==
  IF i > Len(a) THEN <<>>
  ELSE <<(a[i] - BigLimb(b, i) - borrow + 32768) % 32768>>
       \o BigSubFrom(a, b, i + 1, IF a[i] - BigLimb(b, i) - borrow < 0 THEN 1 ELSE 0)

BigSub(a, b) == BigTrim(BigSubFrom(a, b, 1, 0))

RECURSIVE BigCmpFrom(_, _, _)
\* sign of a - b for a and b of the same length, from limb i downwards
BigCmpFrom(a, b, i) ==
  IF i = 0 THEN 0
  ELSE IF a[i] # b[i] THEN (IF a[i] < b[i] THEN -1 ELSE 1)
  ELSE BigCmpFrom(a, b, i - 1)

BigCmp(a, b) ==
  IF Len(a) # Len(b) THEN (IF Len(a) < Len(b) THEN -1 ELSE 1)
  ELSE BigCmpFrom(a, b, Len(a))

RECURSIVE BigMulLimbFrom(_, _, _, _)
\* limbs i.. of a * k + carry, for a limb k
BigMulLimbFrom(a, k, i, carry) ==
  IF i > Len(a) THEN (IF carry = 0 THEN <<>> ELSE <<carry>>)
  ELSE <<(a[i] * k + carry) % 32768>>
       \o BigMulLimbFrom(a, k, i + 1, (a[i] * k + carry) \div 32768)

RECURSIVE BigMulFrom(_, _, _)
\* a * (limbs i.. of b)
BigMulFrom(a, b, i) ==
  IF i > Len(b) THEN <<>>
  ELSE BigAdd(BigMulLimbFrom(a, b[i], 1, 0),
              IF i = Len(b) THEN <<>> ELSE <<0>> \o BigMulFrom(a, b, i + 1))

BigMul(a, b) == IF a = <<>> \/ b = <<>> THEN <<>> ELSE BigTrim(BigMulFrom(a, b, 1))

\* 2^k for k in 0..15
IntPow2(k) ==
  <<1, 2, 4, 8, 16, 32, 64, 128, 256, 512, 1024, 2048, 4096, 8192, 16384, 32768>>[k + 1]

RECURSIVE IntBitLen(_)
IntBitLen(i) == IF i = 0 THEN 0 ELSE 1 + IntBitLen(i \div 2)

\* 2^k
BigPow2(k) ==
  [i \in 1..((k \div 15) + 1) |-> IF i = (k \div 15) + 1 THEN IntPow2(k % 15) ELSE 0]

\* number of bits of a
BigBitLen(a) == IF a = <<>> THEN 0 ELSE 15 * (Len(a) - 1) + IntBitLen(a[Len(a)])

BigOdd(a) == a # <<>> /\ a[1] % 2 = 1

\* bit i of a, bit 0 the least significant
BigBit(a, i) == (a[(i \div 15) + 1] \div IntPow2(i % 15)) % 2

\* twice a plus the bit
BigShiftIn(a, bit) == BigAdd(BigAdd(a, a), IF bit = 0 THEN <<>> ELSE <<1>>)

\* the quotient and the remainder with r, the remainder shifted, taken in
BigDivBit(q, r, b, i) ==
  IF BigCmp(r, b) >= 0 THEN <<BigShiftIn(q, 1), BigSub(r, b), i>>
  ELSE <<BigShiftIn(q, 0), r, i>>

RECURSIVE BigDivFrom(_, _, _)
\* long division in base 2: st = <<quotient, remainder, i>> of the bits of a
\* above bit i
BigDivFrom(a, b, st) ==
  IF st[3] = 0 THEN st
  ELSE BigDivFrom(a, b, BigDivBit(st[1], BigShiftIn(st[2], BigBit(a, st[3] - 1)),
                                  b, st[3] - 1))

RECURSIVE BigDivLimbFrom(_, _, _)
\* short division by the limb k: st = <<quotient, remainder, i>> of the limbs
\* of a above limb i
BigDivLimbFrom(a, k, st) ==
  IF st[3] = 0 THEN st
  ELSE BigDivLimbFrom(a, k, <<<<(st[2] * 32768 + a[st[3]]) \div k>> \o st[1],
                              (st[2] * 32768 + a[st[3]]) % k,
                              st[3] - 1>>)

BigOfLimb(r) == IF r = 0 THEN <<>> ELSE <<r>>
BigDivLimb(st) == <<BigTrim(st[1]), BigOfLimb(st[2]), 0>>

\* <<a div b, a mod b, 0>> for b > 0
BigDivMod(a, b) ==
  IF Len(b) = 1 THEN BigDivLimb(BigDivLimbFrom(a, b[1], <<(<<>>), 0, Len(a)>>))
  ELSE BigDivFrom(a, b, <<(<<>>), (<<>>), BigBitLen(a)>>)

\* a div 2^sh
BigShiftRight(a, sh) ==
  BigTrim([i \in 1..(Len(a) - (sh \div 15)) |->
             (a[i + (sh \div 15)] \div IntPow2(sh % 15))
             + (BigLimb(a, i + (sh \div 15) + 1) % IntPow2(sh % 15))
               * IntPow2(15 - (sh % 15))])

\* a mod 2^k is not zero
BigLowBits(a, k) == \E i \in 0..(k - 1) : BigBit(a, i) = 1

\* the number of zero bits that end a > 0
BigTrailingZeros(a) ==
  CHOOSE k \in 0..BigBitLen(a) : BigBit(a, k) = 1 /\ ~BigLowBits(a, k)

Dbl(s, m, e) == [s |-> s, m |-> m, e |-> e]
DZero == Dbl(1, <<>>, 0)
\* the result of an operation that has none among the finite doubles
DNaN == Dbl(0, <<>>, 0)
DIsNaN(x) == x.s = 0
DIsZero(x) == x.s # 0 /\ x.m = <<>>

\* the mantissa q rounded up: the carry into bit 54 moves the exponent
DRoundedUp(s, q, e) ==
  IF BigBitLen(BigAdd(q, <<1>>)) > 53 THEN Dbl(s, BigPow2(52), e + 1)
  ELSE Dbl(s, BigAdd(q, <<1>>), e)

\* m without its last sh bits, rounded to nearest, ties to even; sticky says
\* that bits below m were not zero
DRoundShift(s, m, e, sh, sticky) ==
  IF /\ BigBit(m, sh - 1) = 1
     /\ (sticky \/ BigLowBits(m, sh - 1) \/ BigOdd(BigShiftRight(m, sh)))
  THEN DRoundedUp(s, BigShiftRight(m, sh), e + sh)
  ELSE Dbl(s, BigShiftRight(m, sh), e + sh)

DRoundBits(s, m, e, sticky, bits) ==
  IF bits <= 53 THEN Dbl(s, BigMul(m, BigPow2(53 - bits)), e - (53 - bits))
  ELSE DRoundShift(s, m, e, bits - 53, sticky)

\* the double nearest to s * m * 2^e (plus a little, when sticky)
DRound(s, m, e, sticky) ==
  IF m = <<>> THEN DZero ELSE DRoundBits(s, m, e, sticky, BigBitLen(m))

\* the double of the integer i
DOfInt(i) == DRound(IF i < 0 THEN -1 ELSE 1, BigOfInt(IF i < 0 THEN -i ELSE i), 0, FALSE)

\* -x; the sign of zero is not kept
DNeg(x) == IF x.m = <<>> THEN x ELSE [x EXCEPT !.s = -x.s]

\* a * b
DMul(a, b) ==
  IF DIsNaN(a) \/ DIsNaN(b) THEN DNaN
  ELSE DRound(a.s * b.s, BigMul(a.m, b.m), a.e + b.e, FALSE)

\* the sum of s1 * m1 and s2 * m2, both at exponent e
DAddAligned(s1, m1, s2, m2, e) ==
  IF s1 = s2 THEN DRound(s1, BigAdd(m1, m2), e, FALSE)
  ELSE IF BigCmp(m1, m2) >= 0 THEN DRound(s1, BigSub(m1, m2), e, FALSE)
  ELSE DRound(s2, BigSub(m2, m1), e, FALSE)

\* a + b
DAdd(a, b) ==
  IF DIsNaN(a) \/ DIsNaN(b) THEN DNaN
  ELSE IF DIsZero(a) THEN b
  ELSE IF DIsZero(b) THEN a
  ELSE IF a.e >= b.e
  THEN DAddAligned(a.s, BigMul(a.m, BigPow2(a.e - b.e)), b.s, b.m, b.e)
  ELSE DAddAligned(a.s, a.m, b.s, BigMul(b.m, BigPow2(b.e - a.e)), a.e)

\* a - b
DSub(a, b) == DAdd(a, DNeg(b))

\* the quotient rounded: qr is a quotient of 55 bits or more and the remainder
DDivRound(s, qr, e) == DRound(s, qr[1], e, qr[2] # <<>>)

\* a / (odd * 2^e2), with the mantissa of a shifted left by k bits
DDivOdd(a, s2, odd, e2, k) ==
  DDivRound(a.s * s2, BigDivMod(BigMul(a.m, BigPow2(k)), odd), a.e - e2 - k)

\* the divisor b is odd * 2^(b.e + tz)
DDivStripped(a, b, tz) ==
  DDivOdd(a, b.s, BigShiftRight(b.m, tz), b.e + tz, 55 - tz)

\* a / b
DDiv(a, b) ==
  IF DIsNaN(a) \/ DIsNaN(b) \/ DIsZero(b) THEN DNaN
  ELSE IF DIsZero(a) THEN DZero
  ELSE DDivStripped(a, b, BigTrailingZeros(b.m))

\* sign of a - b
DCmp(a, b) == IF DIsZero(DSub(a, b)) THEN 0 ELSE DSub(a, b).s
DLess(a, b) == ~DIsNaN(a) /\ ~DIsNaN(b) /\ DCmp(a, b) < 0

\* the double of a number of the exact model: a decimal text or an integer
\* converts to the double nearest to its value
DOfNumber(x) ==
  IF x.k # "fin" THEN DNaN
  ELSE IF x.d = 1 THEN DOfInt(x.n)
  ELSE DDiv(DOfInt(x.n), DOfInt(x.d))

(***************************************************************************)
(* State                                                                   *)
(***************************************************************************)
VARIABLES
  payCar,              \* the vehicle handed to the pricing functions
  payPhase,            \* which of the pricing functions have been applied
  payments,            \* result of getCarPayments(payCar)
  paymentsOvr,         \* result of getCarPaymentsWithOverride(payCar, ...)
  metrics,             \* result of calculateLeaseMetrics(payCar, ...)
  storage,             \* localStorage[STORAGE_KEY]: absent, or a saved collection
  savedCars,           \* the mounted component's savedCars: [cars, currentCarId]
  loaded,              \* the mount effect of the component has run
  selectedCarIds,      \* ComparisonView: ids ticked for comparison
  overrideDownPayment, \* ComparisonView: text of the global down payment field
  carOverrides,        \* ComparisonView: carId -> (override field -> text)
  isEditingOverride,   \* ComparisonView: an override was edited less than 1.5 s ago
  lastSortedOrder,     \* ComparisonView: ids of the last ranking captured
  editingTimeout,      \* ComparisonView: id of the timer last started, 0 for null
  pendingTimers,       \* timers started and neither fired nor cleared
  sortEngine,          \* which Array.prototype.sort the page runs on
  sortedCars,          \* ComparisonView: ids of the memoised ranking
  data,                \* LeaseCalculator: the vehicle being edited
  dblData,             \* LeaseCalculator: the vehicle being edited, in doubles
  dblPay,              \* the breakdowns by an APR and by its money factor, in doubles
  mig,                 \* a stored record and what migrateCarData makes of it
  advisory,            \* a vehicle and its cell of the Expected Residual % row
  vinLookup            \* ComparisonView: the VIN inputs and the lookups awaiting their response

dblVars == <<dblData, dblPay>>
payVars == <<payCar, payPhase, payments, paymentsOvr, metrics>>
cmpVars == <<selectedCarIds, overrideDownPayment, carOverrides, isEditingOverride,
             lastSortedOrder, editingTimeout, pendingTimers, sortEngine, sortedCars>>
vars == <<payCar, payPhase, payments, paymentsOvr, metrics, storage, savedCars, loaded,
          selectedCarIds, overrideDownPayment, carOverrides, isEditingOverride,
          lastSortedOrder, editingTimeout, pendingTimers, sortEngine, sortedCars, data, dblData, dblPay, mig,
          advisory, vinLookup>>

(***************************************************************************)
(* Pricing pipeline                                                        *)
(***************************************************************************)
OverrideFields ==
  {"discount", "residualPercent", "apr", "marketFactor", "downPayment", "totalFees"}

NoOverrides == [f \in OverrideFields |-> Undef]

\* overrideDownPayment === '' ? undefined : parseFloat(overrideDownPayment) || 0
OverrideDownPaymentValue(text) ==
  IF text = <<>> THEN Undef ELSE Or(ParseFloat(text), N(0))

\* the parsed overrides of a car: undefined (no field set) when it has no entry
GetCarOverrides(co, carId) ==
  IF carId \notin DOMAIN co THEN NoOverrides
  ELSE [f \in OverrideFields |->
          IF f \in DOMAIN co[carId] /\ co[carId][f] # <<>>
          THEN ParseFloat(co[carId][f]) ELSE Undef]

\* car.apr || (car.marketFactor ? car.marketFactor * 2400 : 0)
StoredApr(car) ==
  Or(car.apr, IF Truthy(car.marketFactor) THEN Mul(car.marketFactor, N(2400)) ELSE N(0))

\* car.marketFactor || (car.apr ? car.apr / 2400 : 0)
StoredMoneyFactor(car) ==
  Or(car.marketFactor, IF Truthy(car.apr) THEN Div(car.apr, N(2400)) ELSE N(0))

\* mutant of StoredFees: the handling fee is left out
StoredFeesNoHandling(car) ==
  Add(Or(car.tagTitleFilingFees, N(0)), Or(car.otherFees, N(0)))

StoredFees(car) ==
  Add(Add(Or(car.tagTitleFilingFees, N(0)), Or(car.handlingFees, N(0))),
      Or(car.otherFees, N(0)))

\* mutant of ResolveApr: the marketFactor override is looked at first
ResolveAprFactorFirst(car, ov) ==
  IF ov.marketFactor # Undef THEN Mul(ov.marketFactor, N(2400))
  ELSE IF ov.apr # Undef THEN ov.apr
  ELSE StoredApr(car)

\* the effective APR: apr override, else marketFactor override, else stored
ResolveApr(car, ov) ==
  IF ov.apr # Undef THEN ov.apr
  ELSE IF ov.marketFactor # Undef THEN Mul(ov.marketFactor, N(2400))
  ELSE StoredApr(car)

ResolveMoneyFactor(car, ov) ==
  IF ov.apr # Undef THEN Div(ov.apr, N(2400))
  ELSE IF ov.marketFactor # Undef THEN ov.marketFactor
  ELSE StoredMoneyFactor(car)

\* the APR the finance row of the comparison table prints: apr override,
\* else marketFactor override * 2400, else stored
FinanceRowApr(car, ov) ==
  IF ov.apr # Undef THEN ov.apr
  ELSE IF ov.marketFactor # Undef THEN Mul(ov.marketFactor, N(2400))
  ELSE StoredApr(car)

\* the money factor the finance row prints: marketFactor override, else
\* apr override / 2400, else stored
FinanceRowMoneyFactor(car, ov) ==
  IF ov.marketFactor # Undef THEN ov.marketFactor
  ELSE IF ov.apr # Undef THEN Div(ov.apr, N(2400))
  ELSE StoredMoneyFactor(car)

\* mutant of ResolveDownPayment: the global override beats the per-vehicle one
ResolveDownPaymentGlobalFirst(car, odp, ov) ==
  IF odp # Undef THEN odp
  ELSE IF ov.downPayment # Undef THEN ov.downPayment
  ELSE Or(car.downPayment, N(0))

\* per-vehicle override, else the global override, else the stored value
ResolveDownPayment(car, odp, ov) ==
  IF ov.downPayment # Undef THEN ov.downPayment
  ELSE IF odp # Undef THEN odp
  ELSE Or(car.downPayment, N(0))

\* mutant of FinanceCharge: the rate is charged on the cap cost alone
FinanceChargeCapCostOnly(adjustedCapCost, residualValue, monthlyRate) ==
  Mul(adjustedCapCost, monthlyRate)

\* (adjustedCapCost + residualValue) * monthlyRate
FinanceCharge(adjustedCapCost, residualValue, monthlyRate) ==
  Mul(Add(adjustedCapCost, residualValue), monthlyRate)

\* The three copies of the pipeline compute the same chain of values from
\* the inputs they resolve; each step below adds the values that need only
\* what the steps before it produced.

\* baseCapCost, totalDownPayment, salesTaxMultiplier, residualValue, monthlyRate
CapCostStep(i) ==
  i @@ [baseCapCost |-> Mul(i.msrp, Sub(N(1), Div(i.discount, N(100)))),
        totalDownPayment |-> Add(Add(i.downPayment, i.equityTransfer), i.dueAtSigning),
        salesTaxMultiplier |-> Add(N(1), Div(i.salesTaxPercent, N(100))),
        residualValue |-> Div(Mul(i.msrp, i.residualPercent), N(100)),
        monthlyRate |-> Div(Div(i.currentApr, N(100)), N(12))]

\* adjustedCapCost = baseCapCost + totalFees - totalDownPayment
AdjustedCapCostStep(b) ==
  b @@ [adjustedCapCost |-> Sub(Add(b.baseCapCost, b.totalFees), b.totalDownPayment)]

DepreciationStep(b) ==
  b @@ [adjustedCapCostWithTax |-> Mul(b.adjustedCapCost, b.salesTaxMultiplier),
        depreciation |-> Sub(b.adjustedCapCost, b.residualValue),
        monthlyFinanceCharge |->
          FinanceCharge(b.adjustedCapCost, b.residualValue, b.monthlyRate)]

\* mutant of MonthlyDepreciationStep: the residual value is not taken off
MonthlyDepreciationStepOfCapCost(b) ==
  b @@ [monthlyDepreciation |-> Div(b.adjustedCapCost, b.leaseTerm)]

\* depreciation / car.leaseTerm, whatever the term is
MonthlyDepreciationStep(b) ==
  b @@ [monthlyDepreciation |-> Div(b.depreciation, b.leaseTerm)]

BaseMonthlyPaymentStep(b) ==
  b @@ [baseMonthlyPayment |-> Add(b.monthlyDepreciation, b.monthlyFinanceCharge)]

TotalMonthlyPaymentStep(b) ==
  b @@ [totalMonthlyPayment |-> Mul(b.baseMonthlyPayment, b.salesTaxMultiplier)]

\* totalMonthlyPayment * car.leaseTerm (the analysis route only)
TotalLeaseCostStep(b) ==
  b @@ [totalLeaseCost |-> Mul(b.totalMonthlyPayment, b.leaseTerm)]

PaymentSteps(i) ==
  TotalMonthlyPaymentStep(BaseMonthlyPaymentStep(MonthlyDepreciationStep(
    DepreciationStep(AdjustedCapCostStep(CapCostStep(i))))))

\* the fields of the object the functions of leaseData.ts and ComparisonView.tsx return
BreakdownFields ==
  {"baseCapCost", "adjustedCapCost", "adjustedCapCostWithTax", "totalFees",
   "totalDownPayment", "residualValue", "depreciation", "currentApr",
   "currentMoneyFactor", "monthlyDepreciation", "monthlyFinanceCharge",
   "baseMonthlyPayment", "totalMonthlyPayment"}

\* the fields of the object calculateLeaseMetrics returns
MetricsFields ==
  {"baseCapCost", "totalFees", "totalDownPayment", "adjustedCapCost", "residualValue",
   "depreciation", "monthlyDepreciation", "monthlyFinanceCharge",
   "totalMonthlyPayment", "totalLeaseCost", "currentApr"}

\* what getCarPayments reads of the stored vehicle
StoredInputs(car) ==
  [msrp |-> car.msrp,
   discount |-> Or(car.discount, N(0)),
   residualPercent |-> car.residualPercent,
   leaseTerm |-> car.leaseTerm,
   totalFees |-> StoredFees(car),
   downPayment |-> Or(car.downPayment, N(0)),
   equityTransfer |-> Or(car.equityTransfer, N(0)),
   dueAtSigning |-> Or(car.dueAtSigning, N(0)),
   salesTaxPercent |-> Or(car.salesTaxPercent, N(0)),
   currentApr |-> StoredApr(car),
   currentMoneyFactor |-> StoredMoneyFactor(car)]

\* the same inputs with the overrides applied: an override that is not
\* undefined replaces the stored value
OverrideInputs(car, odp, ov) ==
  [msrp |-> car.msrp,
   discount |-> IF ov.discount # Undef THEN ov.discount ELSE Or(car.discount, N(0)),
   residualPercent |->
     IF ov.residualPercent # Undef THEN ov.residualPercent ELSE car.residualPercent,
   leaseTerm |-> car.leaseTerm,
   totalFees |-> IF ov.totalFees # Undef THEN ov.totalFees ELSE StoredFees(car),
   downPayment |-> ResolveDownPayment(car, odp, ov),
   equityTransfer |-> Or(car.equityTransfer, N(0)),
   dueAtSigning |-> Or(car.dueAtSigning, N(0)),
   salesTaxPercent |-> Or(car.salesTaxPercent, N(0)),
   currentApr |-> ResolveApr(car, ov),
   currentMoneyFactor |-> ResolveMoneyFactor(car, ov)]

\* the fields F of the record b
Fields(b, F) == [f \in F |-> b[f]]

getCarPayments(car) == Fields(PaymentSteps(StoredInputs(car)), BreakdownFields)

getCarPaymentsWithOverride(car, odp, ov) ==
  Fields(PaymentSteps(OverrideInputs(car, odp, ov)), BreakdownFields)

\* mutant of calculateLeaseMetrics: the overrides are not looked at
calculateLeaseMetricsStoredOnly(car, odp, ov) ==
  Fields(TotalLeaseCostStep(PaymentSteps(StoredInputs(car))), MetricsFields)

\* the analysis route's copy of the pipeline
calculateLeaseMetrics(car, odp, ov) ==
  Fields(TotalLeaseCostStep(PaymentSteps(OverrideInputs(car, odp, ov))), MetricsFields)

(***************************************************************************)
(* Inputs of the pricing functions                                         *)
(***************************************************************************)
MaxDeviations == 1      \* stored fields of the vehicle that differ from ScenarioCar
MaxOverrideFields == 2  \* override fields that one vehicle carries

NumericFields ==
  {"msrp", "discount", "residualPercent", "apr", "marketFactor", "leaseTerm",
   "salesTaxPercent", "tagTitleFilingFees", "handlingFees", "otherFees",
   "downPayment", "equityTransfer", "dueAtSigning"}

\* MSRP 35000, 5% discount, 60% residual, 3% APR, 36 months, fees 900,
\* 2000 down, no equity transfer, nothing due at signing, 7% sales tax
ScenarioCar ==
  [id |-> 1, carMake |-> "Audi",
   msrp |-> N(35000), discount |-> N(5), residualPercent |-> N(60),
   apr |-> N(3), marketFactor |-> Fin(1, 800), leaseTerm |-> N(36),
   salesTaxPercent |-> N(7), tagTitleFilingFees |-> N(200), handlingFees |-> N(700),
   otherFees |-> N(0), downPayment |-> N(2000), equityTransfer |-> N(0),
   dueAtSigning |-> N(0), discountAmount |-> N(1750), capCostPercent |-> N(95)]

\* a stored field may be absent (a record loaded from an older or foreign file)
\* or hold another number
Deviations ==
  {<<f, Undef>> : f \in NumericFields} \cup
  {<<"msrp", N(0)>>, <<"discount", N(0)>>, <<"residualPercent", N(50)>>,
   <<"apr", N(0)>>, <<"marketFactor", N(0)>>, <<"marketFactor", Fin(1, 500)>>,
   <<"leaseTerm", N(0)>>, <<"leaseTerm", N(-12)>>, <<"leaseTerm", N(24)>>,
   <<"salesTaxPercent", N(0)>>, <<"otherFees", N(100)>>,
   <<"downPayment", N(0)>>, <<"downPayment", N(50000)>>,
   <<"equityTransfer", N(1000)>>, <<"dueAtSigning", N(500)>>}

RECURSIVE CarVariants(_)
CarVariants(k) ==
  IF k = 0 THEN {ScenarioCar}
  ELSE LET prev == CarVariants(k - 1)
       IN prev \cup {[c EXCEPT ![dv[1]] = dv[2]] : c \in prev, dv \in Deviations}

\* what a number input can hold: the empty text or a decimal literal
OverrideTexts ==
  [discount |-> {<<>>, <<"1", "0">>},
   residualPercent |-> {<<>>, <<"5", "5">>},
   apr |-> {<<>>, <<"6">>},
   marketFactor |-> {<<>>, <<"0", ".", "0", "0", "1">>},
   downPayment |-> {<<>>, <<"1", "0", "0", "0">>},
   totalFees |-> {<<>>, <<"5", "0", "0">>}]

GlobalTexts == {<<>>, <<"0">>, <<"3", "6", "0", "0">>}

EmptyMap == <<>>

RECURSIVE OverrideEntries(_)
\* the override records of one vehicle with at most k fields
OverrideEntries(k) ==
  IF k = 0 THEN {EmptyMap}
  ELSE LET prev == OverrideEntries(k - 1)
       IN prev \cup
          UNION {{e @@ (f :> t) : t \in OverrideTexts[f]} :
                   e \in prev, f \in OverrideFields}

\* useState({cars: [], currentCarId: null}); 0 stands for the null id
NoCars == [cars |-> <<>>, currentCarId |-> 0]
\* localStorage without the key
NoStorage == [present |-> FALSE, cars |-> <<>>, currentCarId |-> 0]
\* what the pricing functions leave alone
payIdle == <<storage, savedCars, loaded, cmpVars, data, dblVars, mig, advisory, vinLookup>>

\* the value of a result that has not been computed yet
NoBreakdown == [f \in DOMAIN getCarPayments(ScenarioCar) |-> N(0)]
NoMetrics ==
  [f \in DOMAIN calculateLeaseMetrics(ScenarioCar, Undef, NoOverrides) |-> N(0)]

(***************************************************************************)
(* The pricing functions applied to one vehicle                            *)
(***************************************************************************)
PayInit ==
  /\ vinLookup = <<>>
  /\ advisory = <<>>
  /\ mig = <<>>
  /\ dblData = <<>>
  /\ dblPay = <<>>
  /\ payCar \in CarVariants(MaxDeviations)
  /\ \E e \in OverrideEntries(MaxOverrideFields) :
       carOverrides = IF e = EmptyMap THEN EmptyMap ELSE (payCar.id :> e)
  /\ overrideDownPayment \in GlobalTexts
  /\ payPhase = "input"
  /\ payments = NoBreakdown
  /\ paymentsOvr = NoBreakdown
  /\ metrics = NoMetrics
  /\ storage = NoStorage
  /\ savedCars = NoCars
  /\ loaded = FALSE
  /\ selectedCarIds = {}
  /\ isEditingOverride = FALSE
  /\ lastSortedOrder = <<>>
  /\ editingTimeout = 0
  /\ pendingTimers = {}
  /\ sortEngine = "binary"
  /\ sortedCars = <<>>
  /\ data = ScenarioCar

EvalGetCarPayments ==
  /\ payPhase = "input"
  /\ payments' = getCarPayments(payCar)
  /\ payPhase' = "payments"
  /\ UNCHANGED <<payCar, paymentsOvr, metrics, payIdle>>

EvalGetCarPaymentsWithOverride ==
  /\ payPhase = "payments"
  /\ paymentsOvr' =
       getCarPaymentsWithOverride(payCar, OverrideDownPaymentValue(overrideDownPayment),
                                  GetCarOverrides(carOverrides, payCar.id))
  /\ payPhase' = "override"
  /\ UNCHANGED <<payCar, payments, metrics, payIdle>>

EvalCalculateLeaseMetrics ==
  /\ payPhase = "override"
  /\ metrics' =
       calculateLeaseMetrics(payCar, OverrideDownPaymentValue(overrideDownPayment),
                             GetCarOverrides(carOverrides, payCar.id))
  /\ payPhase' = "done"
  /\ UNCHANGED <<payCar, payments, paymentsOvr, payIdle>>

PayNext ==
  \/ EvalGetCarPayments
  \/ EvalGetCarPaymentsWithOverride
  \/ EvalCalculateLeaseMetrics

SpecPay == PayInit /\ [][PayNext]_vars

(***************************************************************************)
(* Properties of the pricing functions (checked under SpecPay)             *)
(***************************************************************************)
PayOdp == OverrideDownPaymentValue(overrideDownPayment)
PayOv == GetCarOverrides(carOverrides, payCar.id)
\* the text of an override field of payCar, empty when it is not set
PayText(f) ==
  IF payCar.id \in DOMAIN carOverrides /\ f \in DOMAIN carOverrides[payCar.id]
  THEN carOverrides[payCar.id][f] ELSE <<>>
PositiveTerm(car) == Less(N(0), car.leaseTerm)
WellFormed(car) == \A f \in NumericFields : IsFinite(car[f])
NoNaNField(bd) == \A f \in DOMAIN bd : ~IsNaN(bd[f])
\* the vehicle with every missing or NaN numeric input replaced by 0
ZeroFilled(car) ==
  [f \in DOMAIN car |->
     IF f \in NumericFields /\ f # "leaseTerm" /\ IsNaN(car[f]) THEN N(0) ELSE car[f]]
\* a finite amount in cents, rounded half up
Cents(x) == (200 * x.n + x.d) \div (2 * x.d)

\* C4 (as claimed): a vehicle with lease term 0 or below never yields a
\* breakdown whose monthlyDepreciation or totalMonthlyPayment is NaN or
\* infinite (an InvalidVehicleConfiguration is signalled instead).
C4_NonPositiveTermRejected ==
  (payPhase = "done" /\ IsFinite(payCar.leaseTerm) /\ ~PositiveTerm(payCar))
    => /\ IsFinite(payments.monthlyDepreciation)
       /\ IsFinite(payments.totalMonthlyPayment)
       /\ IsFinite(paymentsOvr.monthlyDepreciation)
       /\ IsFinite(paymentsOvr.totalMonthlyPayment)

\* C5 (as claimed): with a positive lease term, a missing or NaN numeric input
\* counts as 0: no field of the breakdown is NaN and the breakdown is that of
\* the vehicle with the input set to 0.
C5_MissingInputIsZero ==
  (payPhase = "done" /\ PositiveTerm(payCar))
    => /\ NoNaNField(payments)
       /\ payments = getCarPayments(ZeroFilled(payCar))
       /\ NoNaNField(paymentsOvr)
       /\ paymentsOvr = getCarPaymentsWithOverride(ZeroFilled(payCar), PayOdp, PayOv)

\* C6: the down payment of a comparison breakdown is the per-vehicle override
\* when its text is set, else the global override when its text is set, else
\* the stored down payment; equityTransfer and dueAtSigning are added in every
\* case, and a global override acts exactly like a changed stored down payment.
C6_DownPaymentPrecedence ==
  payPhase = "done" =>
    LET own == PayText("downPayment")
        rest == Add(Or(payCar.equityTransfer, N(0)), Or(payCar.dueAtSigning, N(0)))
    IN /\ own # <<>> => paymentsOvr.totalDownPayment = Add(ParseFloat(own), rest)
       /\ (own = <<>> /\ overrideDownPayment # <<>>)
            => /\ paymentsOvr.totalDownPayment =
                    Add(Or(ParseFloat(overrideDownPayment), N(0)), rest)
               /\ paymentsOvr =
                    getCarPaymentsWithOverride(
                      [payCar EXCEPT !.downPayment = ParseFloat(overrideDownPayment)],
                      Undef, PayOv)
       /\ (own = <<>> /\ overrideDownPayment = <<>>)
            => /\ paymentsOvr.totalDownPayment = Add(Or(payCar.downPayment, N(0)), rest)
               /\ paymentsOvr.totalDownPayment = payments.totalDownPayment

\* C6 witness: both a per-vehicle and a different global down payment override
\* are set and the per-vehicle one (1000) is the one in the breakdown
C6_Witness ==
  /\ payPhase = "done"
  /\ PayText("downPayment") = <<"1", "0", "0", "0">>
  /\ overrideDownPayment = <<"3", "6", "0", "0">>
  /\ payCar = ScenarioCar
  /\ paymentsOvr.totalDownPayment = N(1000)

\* C7: an apr override is the APR of the breakdown and fixes the money factor
\* at apr / 2400 whatever the marketFactor override says; else a marketFactor
\* override gives APR = marketFactor * 2400; else the stored apr and the
\* stored marketFactor are used (each derived from the other when it is 0 or
\* missing).  The finance charge is computed with that APR.
C7_RateResolution ==
  payPhase = "done" =>
    LET aprText == PayText("apr")
        mfText == PayText("marketFactor")
        charge(apr) ==
          Mul(Add(paymentsOvr.adjustedCapCost, paymentsOvr.residualValue),
              Div(apr, N(1200)))
    IN /\ aprText # <<>>
            => /\ paymentsOvr.currentApr = ParseFloat(aprText)
               /\ paymentsOvr.currentMoneyFactor = Div(ParseFloat(aprText), N(2400))
               /\ metrics.currentApr = ParseFloat(aprText)
       /\ (aprText = <<>> /\ mfText # <<>>)
            => /\ paymentsOvr.currentApr = Mul(ParseFloat(mfText), N(2400))
               /\ paymentsOvr.currentMoneyFactor = ParseFloat(mfText)
               /\ metrics.currentApr = Mul(ParseFloat(mfText), N(2400))
       /\ (aprText = <<>> /\ mfText = <<>>)
            => /\ Truthy(payCar.apr) => paymentsOvr.currentApr = payCar.apr
               /\ Truthy(payCar.marketFactor)
                    => paymentsOvr.currentMoneyFactor = payCar.marketFactor
               /\ (~Truthy(payCar.apr) /\ Truthy(payCar.marketFactor))
                    => paymentsOvr.currentApr = Mul(payCar.marketFactor, N(2400))
               /\ metrics.currentApr = paymentsOvr.currentApr
       /\ paymentsOvr.monthlyFinanceCharge = charge(paymentsOvr.currentApr)

\* C7 witness: apr override 6 together with the inconsistent marketFactor
\* override 0.001 (APR 2.4): the breakdown uses 6 and 6/2400
C7_Witness ==
  /\ payPhase = "done"
  /\ PayText("apr") = <<"6">>
  /\ PayText("marketFactor") = <<"0", ".", "0", "0", "1">>
  /\ paymentsOvr.currentApr = N(6)
  /\ paymentsOvr.currentMoneyFactor = Fin(1, 400)

\* C8: for a vehicle with every numeric field present and a positive lease
\* term, under every override set, the breakdown is the reference pipeline:
\* baseCapCost = msrp * (1 - discount/100), totalFees = the override or the sum
\* of the three fees, adjustedCapCost = baseCapCost + totalFees -
\* totalDownPayment (not clamped), residualValue = msrp * residual / 100,
\* depreciation = adjustedCapCost - residualValue, monthlyFinanceCharge =
\* (adjustedCapCost + residualValue) * apr / 100 / 12 and totalMonthlyPayment =
\* (depreciation / term + monthlyFinanceCharge) * (1 + salesTax / 100).
C8_ReferencePipeline ==
  (payPhase = "done" /\ WellFormed(payCar) /\ PositiveTerm(payCar)) =>
    LET b == paymentsOvr
        discount == IF PayText("discount") # <<>> THEN ParseFloat(PayText("discount"))
                    ELSE payCar.discount
        residual == IF PayText("residualPercent") # <<>>
                    THEN ParseFloat(PayText("residualPercent"))
                    ELSE payCar.residualPercent
        fees == IF PayText("totalFees") # <<>> THEN ParseFloat(PayText("totalFees"))
                ELSE Add(payCar.tagTitleFilingFees,
                         Add(payCar.handlingFees, payCar.otherFees))
        tax == Add(N(1), Div(payCar.salesTaxPercent, N(100)))
    IN /\ b.baseCapCost = Mul(payCar.msrp, Sub(N(1), Div(discount, N(100))))
       /\ b.totalFees = fees
       /\ b.adjustedCapCost = Sub(Add(b.baseCapCost, b.totalFees), b.totalDownPayment)
       /\ b.residualValue = Div(Mul(payCar.msrp, residual), N(100))
       /\ b.depreciation = Sub(b.adjustedCapCost, b.residualValue)
       /\ b.monthlyFinanceCharge =
            Mul(Add(b.adjustedCapCost, b.residualValue),
                Div(Div(b.currentApr, N(100)), N(12)))
       /\ b.totalMonthlyPayment =
            Mul(Add(Div(b.depreciation, payCar.leaseTerm), b.monthlyFinanceCharge), tax)
       /\ carOverrides = EmptyMap /\ overrideDownPayment = <<>> => payments = b

\* C8 witness: a down payment of 50000 drives adjustedCapCost below zero and
\* the negative value is what the breakdown reports (33250 + 900 - 50000)
C8_Witness ==
  /\ payPhase = "done"
  /\ WellFormed(payCar) /\ PositiveTerm(payCar)
  /\ payCar.downPayment = N(50000)
  /\ carOverrides = EmptyMap /\ overrideDownPayment = <<>>
  /\ paymentsOvr.adjustedCapCost = N(-15850)
  /\ Less(paymentsOvr.totalMonthlyPayment, N(0))

ScenarioEvaluated ==
  /\ payPhase = "done"
  /\ payCar = ScenarioCar
  /\ carOverrides = EmptyMap
  /\ overrideDownPayment = <<>>

\* the figures C9 shares with the code
ScenarioFigures ==
  /\ payments.baseCapCost = N(33250)
  /\ payments.adjustedCapCost = N(32150)
  /\ payments.residualValue = N(21000)
  /\ payments.depreciation = N(11150)
  /\ Cents(payments.monthlyDepreciation) = 30972
  /\ payments.monthlyFinanceCharge = Fin(1063, 8)
  /\ Cents(payments.baseMonthlyPayment) = 44260
  /\ Cents(payments.totalMonthlyPayment) = 47358
  /\ metrics.totalMonthlyPayment = payments.totalMonthlyPayment
  /\ paymentsOvr = payments

\* C9 (as claimed): the concrete scenario yields baseCapCost 33250.00,
\* adjustedCapCost 32150.00, residualValue 21000.00, depreciation 11150.00,
\* monthlyDepreciation 309.72, monthlyFinanceCharge 132.875, baseMonthlyPayment
\* 442.60, totalMonthlyPayment 473.58 and totalLeaseCost 17048.68.
C9_ScenarioAsStated ==
  ScenarioEvaluated => (ScenarioFigures /\ Cents(metrics.totalLeaseCost) = 1704868)

\* C9 (amended): the same figures, with totalLeaseCost = totalMonthlyPayment *
\* 36 = 17048.845 (17048.85 to the cent), not 17048.68.
C9_ScenarioAmended ==
  ScenarioEvaluated =>
    /\ ScenarioFigures
    /\ metrics.totalLeaseCost = Fin(3409769, 200)
    /\ Cents(metrics.totalLeaseCost) = 1704885

\* C9 witness: the scenario has been evaluated by all three functions
C9_Witness == ScenarioEvaluated /\ Cents(metrics.totalMonthlyPayment) = 47358

(***************************************************************************)
(* Storage                                                                 *)
(***************************************************************************)
\* JSON.stringify writes NaN and the infinities as null and drops undefined
JsonNumber(x) == IF x.k \in {"nan", "inf"} THEN Null ELSE x
JsonCar(car) ==
  [f \in DOMAIN car |-> IF f \in {"id", "carMake"} THEN car[f] ELSE JsonNumber(car[f])]

RECURSIVE MapJsonCar(_)
MapJsonCar(cars) ==
  IF cars = <<>> THEN <<>> ELSE <<JsonCar(Head(cars))>> \o MapJsonCar(Tail(cars))

\* localStorage.setItem(STORAGE_KEY, JSON.stringify(savedCars))
saveToStorage(sc) ==
  [present |-> TRUE, cars |-> MapJsonCar(sc.cars), currentCarId |-> sc.currentCarId]

\* a text: 0 is the empty string, any other number a string of characters
Text(n) == [k |-> "text", n |-> n, d |-> 1]
TextFields == {"vin", "dealership", "notes"}

\* mutant of MigrateDescriptive: a missing vin is left undefined
MigrateDescriptiveNoVin(car) ==
  [f \in DOMAIN car |->
     IF f = "ficoScore8" /\ car[f] = Undef THEN N(0)
     ELSE IF f \in {"dealership", "notes"} /\ car[f] = Undef THEN Text(0)
     ELSE car[f]]

\* ficoScore8 gets 0 and vin, dealership and notes get '' when undefined
\* (in a record that has these fields at all)
MigrateDescriptive(car) ==
  [f \in DOMAIN car |->
     IF f = "ficoScore8" /\ car[f] = Undef THEN N(0)
     ELSE IF f \in TextFields /\ car[f] = Undef THEN Text(0)
     ELSE car[f]]

\* fields added after the first schema get their default when absent
migrateCarData(car) ==
  LET discount ==
        IF car.discount = Undef
        THEN Mul(Sub(N(1), Div(car.capCostPercent, N(100))), N(100))
        ELSE car.discount
      default(f, v) == IF car[f] = Undef THEN v ELSE car[f]
  IN MigrateDescriptive([car EXCEPT
        !.discount = discount,
        !.discountAmount =
           IF car.discountAmount = Undef
           THEN Div(Mul(car.msrp, Or(discount, N(0))), N(100))
           ELSE car.discountAmount,
        !.salesTaxPercent = default("salesTaxPercent", N(0)),
        !.tagTitleFilingFees = default("tagTitleFilingFees", N(0)),
        !.handlingFees = default("handlingFees", N(700)),
        !.otherFees = default("otherFees", N(0)),
        !.downPayment = default("downPayment", N(0)),
        !.equityTransfer = default("equityTransfer", N(0)),
        !.dueAtSigning = default("dueAtSigning", N(0))])

RECURSIVE MapMigrate(_)
MapMigrate(cars) ==
  IF cars = <<>> THEN <<>>
  ELSE <<migrateCarData(Head(cars))>> \o MapMigrate(Tail(cars))

\* the saved collection with every car migrated; NoCars stands for null
loadFromStorage(st) ==
  IF ~st.present THEN NoCars
  ELSE [cars |-> MapMigrate(st.cars), currentCarId |-> st.currentCarId]

(***************************************************************************)
(* Sequences of cars and ids                                               *)
(***************************************************************************)
RECURSIVE IdsOf(_)
IdsOf(cars) == IF cars = <<>> THEN <<>> ELSE <<Head(cars).id>> \o IdsOf(Tail(cars))
IdSet(cars) == {cars[i].id : i \in 1..Len(cars)}
\* cars.find(c => c.id === id), for an id that is there
CarById(cars, id) == cars[CHOOSE i \in 1..Len(cars) :
                            cars[i].id = id /\ \A j \in 1..(i - 1) : cars[j].id # id]
RECURSIVE FilterCars(_, _)
\* cars.filter(c => keep.has(c.id))
FilterCars(cars, keep) ==
  IF cars = <<>> THEN <<>>
  ELSE (IF Head(cars).id \in keep THEN <<Head(cars)>> ELSE <<>>)
       \o FilterCars(Tail(cars), keep)
\* 0-based position of id in order, Undef when it is not there (Map.get)
OrderGet(order, id) ==
  IF \E i \in 1..Len(order) : order[i] = id
  THEN N((CHOOSE i \in 1..Len(order) :
            order[i] = id /\ \A j \in (i + 1)..Len(order) : order[j] # id) - 1)
  ELSE Undef
\* a strictly before b in the sequence s (both occur once)
Before(s, a, b) ==
  \E i, j \in 1..Len(s) : i < j /\ s[i] = a /\ s[j] = b

(***************************************************************************)
(* Ranking                                                                 *)
(***************************************************************************)
hasOverride(co, carId) ==
  carId \in DOMAIN co /\ \E f \in DOMAIN co[carId] : co[carId][f] # <<>>

\* what the comparator reads of a selected vehicle: its payment under the
\* overrides in force, whether it carries an override, orderMap.get(id)
RankEntry(car, odpText, co, order) ==
  [id |-> car.id,
   payment |-> getCarPaymentsWithOverride(
                 car, OverrideDownPaymentValue(odpText),
                 GetCarOverrides(co, car.id)).totalMonthlyPayment,
   overridden |-> hasOverride(co, car.id),
   idx |-> OrderGet(order, car.id)]

RECURSIVE RankEntries(_, _, _, _)
RankEntries(cars, odpText, co, order) ==
  IF cars = <<>> THEN <<>>
  ELSE <<RankEntry(Head(cars), odpText, co, order)>>
       \o RankEntries(Tail(cars), odpText, co, order)

\* a comparator key that counts the baseline positions backwards
OrderOrInfinityNegated(e) == IF e.idx = Undef THEN PosInf ELSE Neg(e.idx)

\* orderMap.get(id) ?? Infinity
OrderOrInfinity(e) == IF e.idx = Undef THEN PosInf ELSE e.idx

\* The comparator of the pinned branch of sortedCars returns left - right:
\* positions when either vehicle carries an override (Infinity for a vehicle
\* that has none), payments when neither does
PinnedLeft(a, b) ==
  IF a.overridden THEN OrderOrInfinity(a)
  ELSE IF b.overridden THEN (IF a.idx # Undef THEN a.idx ELSE PosInf)
  ELSE a.payment

PinnedRight(a, b) ==
  IF a.overridden /\ b.overridden THEN OrderOrInfinity(b)
  ELSE IF a.overridden THEN (IF b.idx # Undef THEN b.idx ELSE PosInf)
  ELSE IF b.overridden THEN OrderOrInfinity(b)
  ELSE b.payment

\* mutant of Compare: the payments are subtracted the other way round
CompareDescending(pinned, a, b) ==
  CmpSign(Sub(IF pinned THEN PinnedRight(a, b) ELSE b.payment,
              IF pinned THEN PinnedLeft(a, b) ELSE a.payment))

\* sign of comparefn(a, b) as the sort reads it; without pinning the
\* comparator is the one of calculateSortedCars, paymentsA - paymentsB
Compare(pinned, a, b) ==
  CmpSign(Sub(IF pinned THEN PinnedLeft(a, b) ELSE a.payment,
              IF pinned THEN PinnedRight(a, b) ELSE b.payment))

\* s with the element at position from (1-based) moved to position to <= from
MoveTo(s, from, to) ==
  [i \in 1..Len(s) |->
     IF i < to \/ i > from THEN s[i] ELSE IF i = to THEN s[from] ELSE s[i - 1]]

Reverse(s) == [i \in 1..Len(s) |-> s[Len(s) + 1 - i]]

\* Array.prototype.sort of V8 on a short array: the leading run is found
\* (and reversed when strictly descending), the rest is inserted by binary search
RECURSIVE RunLength(_, _, _, _)
\* the last position of the run that starts the array; i is the position looked at
RunLength(pinned, s, i, desc) ==
  IF i > Len(s) THEN Len(s)
  ELSE IF (Compare(pinned, s[i], s[i - 1]) < 0) # desc THEN i - 1
  ELSE RunLength(pinned, s, i + 1, desc)

RECURSIVE BinaryPosition(_, _, _, _, _)
\* left and right are 0-based as in the engine
BinaryPosition(pinned, s, pivot, left, right) ==
  IF left >= right THEN left
  ELSE IF Compare(pinned, pivot, s[left + ((right - left) \div 2) + 1]) < 0
  THEN BinaryPosition(pinned, s, pivot, left, left + ((right - left) \div 2))
  ELSE BinaryPosition(pinned, s, pivot, left + ((right - left) \div 2) + 1, right)

RECURSIVE BinaryInsertFrom(_, _, _)
BinaryInsertFrom(pinned, s, start) ==
  IF start > Len(s) THEN s
  ELSE BinaryInsertFrom(
         pinned,
         MoveTo(s, start, BinaryPosition(pinned, s, s[start], 0, start - 1) + 1),
         start + 1)

\* the run reversed in place when it is descending, then the insertions
BinaryAfterRun(pinned, s, desc, run) ==
  BinaryInsertFrom(
    pinned,
    IF desc THEN Reverse(SubSeq(s, 1, run)) \o SubSeq(s, run + 1, Len(s)) ELSE s,
    run + 1)

BinaryWithRun(pinned, s, desc) ==
  BinaryAfterRun(pinned, s, desc, RunLength(pinned, s, 3, desc))

SortBinaryInsertion(pinned, s) ==
  IF Len(s) < 2 THEN s ELSE BinaryWithRun(pinned, s, Compare(pinned, s[2], s[1]) < 0)

\* Array.prototype.sort of SpiderMonkey on a short array: insertion sort that
\* walks left while comparefn(left neighbour, item) > 0
RECURSIVE LinearPosition(_, _, _, _)
\* j is 1-based; the result is the 1-based position the item takes
LinearPosition(pinned, s, item, j) ==
  IF j < 1 THEN 1
  ELSE IF Compare(pinned, s[j], item) <= 0 THEN j + 1
  ELSE LinearPosition(pinned, s, item, j - 1)

RECURSIVE LinearInsertFrom(_, _, _)
LinearInsertFrom(pinned, s, i) ==
  IF i > Len(s) THEN s
  ELSE LinearInsertFrom(
         pinned, MoveTo(s, i, LinearPosition(pinned, s, s[i], i - 1)), i + 1)

SortLinearInsertion(pinned, s) == LinearInsertFrom(pinned, s, 2)

SortEntries(engine, pinned, s) ==
  IF engine = "binary" THEN SortBinaryInsertion(pinned, s)
  ELSE SortLinearInsertion(pinned, s)

\* savedCars.cars.filter(car => selectedCarIds.has(car.id))
selectedCars(cars, selected) == FilterCars(cars, selected)

\* the memoised ranking, as the sequence of ids
sortedCarsOf(cars, selected, odpText, co, order, engine) ==
  LET sel == selectedCars(cars, selected)
      pinned == Len(order) > 0 /\ \E i \in 1..Len(sel) : hasOverride(co, sel[i].id)
      sorted == SortEntries(engine, pinned, RankEntries(sel, odpText, co, order))
  IN [i \in 1..Len(sorted) |-> sorted[i].id]

\* the ranking of the state after the step
Rerank ==
  sortedCars' = sortedCarsOf(savedCars'.cars, selectedCarIds', overrideDownPayment',
                             carOverrides', lastSortedOrder', sortEngine')

(***************************************************************************)
(* The comparison view                                                     *)
(***************************************************************************)
MaxOverridden == 1  \* override texts held at once over all vehicles
MaxPinned == 2      \* the same for the collection of four vehicles

\* a vehicle of the saved collection: MSRP 36000, no discount, no rate, no
\* tax, 720 of fees, 36 months
CmpCar(id, make, residualPercent, downPayment) ==
  [ScenarioCar EXCEPT
     !.id = id, !.carMake = make, !.msrp = N(36000), !.discount = N(0),
     !.discountAmount = N(0), !.capCostPercent = N(100),
     !.residualPercent = N(residualPercent), !.apr = N(0), !.marketFactor = N(0),
     !.salesTaxPercent = N(0), !.tagTitleFilingFees = N(0), !.handlingFees = N(720),
     !.downPayment = N(downPayment)]

\* what localStorage holds when the view mounts; the first vehicle was saved
\* before otherFees existed
StoredCollection ==
  [present |-> TRUE,
   cars |-> <<[CmpCar(1, "Audi", 50, 2700) EXCEPT !.otherFees = Undef],
              CmpCar(2, "BMW", 55, 0),
              CmpCar(3, "BMW", 50, 3600)>>,
   currentCarId |-> 1]

CmpStorages == {NoStorage, StoredCollection}

\* a collection of four vehicles, stored in the order 455, 470, 420, 445 of
\* their payments
PinnedCollection ==
  [present |-> TRUE,
   cars |-> <<CmpCar(1, "Audi", 50, 2340), CmpCar(2, "BMW", 55, 0),
              CmpCar(3, "BMW", 50, 3600), CmpCar(4, "Audi", 50, 2700)>>,
   currentCarId |-> 1]

\* how many override texts the model lets a collection hold
OverrideCap(cars) ==
  IF Len(cars) > Len(StoredCollection.cars) THEN MaxPinned ELSE MaxOverridden
SortEngines == {"binary", "linear"}

\* what the comparison view leaves alone
cmpIdle == <<payCar, payPhase, payments, paymentsOvr, metrics, data, dblVars, mig, advisory, vinLookup>>

CmpInit ==
  /\ vinLookup = <<>>
  /\ advisory = <<>>
  /\ mig = <<>>
  /\ dblData = <<>>
  /\ dblPay = <<>>
  /\ storage \in CmpStorages
  /\ sortEngine \in SortEngines
  /\ sortedCars = <<>>
  /\ savedCars = NoCars
  /\ loaded = FALSE
  /\ selectedCarIds = {}
  /\ overrideDownPayment = <<>>
  /\ carOverrides = EmptyMap
  /\ isEditingOverride = FALSE
  /\ lastSortedOrder = <<>>
  /\ editingTimeout = 0
  /\ pendingTimers = {}
  /\ payCar = ScenarioCar
  /\ payPhase = "input"
  /\ payments = NoBreakdown
  /\ paymentsOvr = NoBreakdown
  /\ metrics = NoMetrics
  /\ data = ScenarioCar

\* the effect that keeps the selection inside the collection; it runs when
\* savedCars.cars changes
SyncSelection(cars, selected) ==
  IF Len(cars) = 0 THEN selected
  ELSE IF selected = {} THEN IdSet(cars)
  ELSE IF selected \cap IdSet(cars) = {} THEN IdSet(cars)
  ELSE selected \cap IdSet(cars)

\* the mount effect: loadFromStorage, then every vehicle selected
LoadEffect ==
  /\ ~loaded
  /\ loaded' = TRUE
  /\ LET l == loadFromStorage(storage)
     IN IF Len(l.cars) > 0
        THEN /\ savedCars' = l
             /\ selectedCarIds' = SyncSelection(l.cars, IdSet(l.cars))
        ELSE UNCHANGED <<savedCars, selectedCarIds>>
  /\ UNCHANGED <<storage, overrideDownPayment, carOverrides, isEditingOverride,
                 lastSortedOrder, editingTimeout, pendingTimers, sortEngine, cmpIdle>>
  /\ Rerank

\* the effect that records the ranking has something to record
CapturePending ==
  /\ loaded
  /\ ~isEditingOverride
  /\ Len(sortedCars) > 0
  /\ sortedCars # lastSortedOrder

\* mutant of CaptureBaseline: the ranking is recorded during an edit as well
CaptureBaselineWhileEditing ==
  /\ loaded
  /\ Len(sortedCars) > 0
  /\ sortedCars # lastSortedOrder
  /\ lastSortedOrder' = sortedCars
  /\ UNCHANGED <<storage, savedCars, loaded, selectedCarIds, overrideDownPayment,
                 carOverrides, isEditingOverride, editingTimeout, pendingTimers,
                 sortEngine, cmpIdle>>
  /\ Rerank

\* setLastSortedOrder(sortedCars.map(car => car.id))
CaptureBaseline ==
  /\ CapturePending
  /\ lastSortedOrder' = sortedCars
  /\ UNCHANGED <<storage, savedCars, loaded, selectedCarIds, overrideDownPayment,
                 carOverrides, isEditingOverride, editingTimeout, pendingTimers,
                 sortEngine, cmpIdle>>
  /\ Rerank

\* effects have run, the next event can be handled
Settled == loaded /\ ~CapturePending
\* the override controls and the table are rendered
TableShown == Len(savedCars.cars) > 0 /\ Len(sortedCars) > 0

OverrideEntry(co, carId) == IF carId \in DOMAIN co THEN co[carId] ELSE EmptyMap
\* carOverrides[car.id]?.field ?? ''
OverrideText(co, carId, field) ==
  IF field \in DOMAIN OverrideEntry(co, carId) THEN OverrideEntry(co, carId)[field]
  ELSE <<>>
OverrideCount(co) ==
  Cardinality({<<c, f>> \in (DOMAIN co) \X OverrideFields : f \in DOMAIN co[c]})

\* {...prev, [carId]: {...prev[carId], [field]: value}}
WithOverride(co, carId, field, value) ==
  LET entry == OverrideEntry(co, carId)
      newEntry == [f \in DOMAIN entry \cup {field} |->
                     IF f = field THEN value ELSE entry[f]]
  IN [c \in DOMAIN co \cup {carId} |-> IF c = carId THEN newEntry ELSE co[c]]

\* the entry without the field; the vehicle's entry goes when it is left empty
WithoutOverride(co, carId, field) ==
  LET entry == OverrideEntry(co, carId)
      keys == DOMAIN entry \ {field}
      rest == DOMAIN co \ {carId}
  IN IF keys = {}
     THEN (IF rest = {} THEN EmptyMap ELSE [c \in rest |-> co[c]])
     ELSE [c \in DOMAIN co \cup {carId} |->
             IF c = carId THEN [f \in keys |-> entry[f]] ELSE co[c]]

\* delete newOverrides[carId]
WithoutCar(co, carId) ==
  IF DOMAIN co \ {carId} = {} THEN EmptyMap
  ELSE [c \in DOMAIN co \ {carId} |-> co[c]]

\* setTimeout returns a handle that no live timer has
NewTimer == IF editingTimeout = 1 THEN 2 ELSE 1

\* mutant of updateCarOverride: the timer of the edit before is left running
updateCarOverrideTimerKept(carId, field, value) ==
  /\ Settled /\ TableShown
  /\ \E i \in 1..Len(sortedCars) : sortedCars[i] = carId
  /\ value # OverrideText(carOverrides, carId, field)
  /\ \/ field \in DOMAIN OverrideEntry(carOverrides, carId)
     \/ OverrideCount(carOverrides) < OverrideCap(savedCars.cars)
  /\ isEditingOverride' = TRUE
  /\ pendingTimers' = pendingTimers \cup {NewTimer}
  /\ editingTimeout' = NewTimer
  /\ carOverrides' = WithOverride(carOverrides, carId, field, value)
  /\ UNCHANGED <<storage, savedCars, loaded, selectedCarIds, overrideDownPayment,
                 lastSortedOrder, sortEngine, cmpIdle>>
  /\ Rerank

\* mutant of updateCarOverride: the value typed is also written into the
\* stored vehicle and saved
updateCarOverrideWrittenBack(carId, field, value) ==
  /\ Settled /\ TableShown
  /\ \E i \in 1..Len(sortedCars) : sortedCars[i] = carId
  /\ value # OverrideText(carOverrides, carId, field)
  /\ \/ field \in DOMAIN OverrideEntry(carOverrides, carId)
     \/ OverrideCount(carOverrides) < OverrideCap(savedCars.cars)
  /\ isEditingOverride' = TRUE
  /\ pendingTimers' = (pendingTimers \ {editingTimeout}) \cup {NewTimer}
  /\ editingTimeout' = NewTimer
  /\ carOverrides' = WithOverride(carOverrides, carId, field, value)
  /\ savedCars' =
       [savedCars EXCEPT
          !.cars = [i \in 1..Len(@) |->
                      IF @[i].id = carId /\ field \in DOMAIN @[i]
                      THEN [@[i] EXCEPT ![field] = ParseFloat(value)] ELSE @[i]]]
  /\ storage' = saveToStorage(savedCars')
  /\ UNCHANGED <<loaded, selectedCarIds, overrideDownPayment,
                 lastSortedOrder, sortEngine, cmpIdle>>
  /\ Rerank

\* onChange of one override input of a vehicle of the table
updateCarOverride(carId, field, value) ==
  /\ Settled /\ TableShown
  /\ \E i \in 1..Len(sortedCars) : sortedCars[i] = carId
  /\ value # OverrideText(carOverrides, carId, field)
  /\ \/ field \in DOMAIN OverrideEntry(carOverrides, carId)
     \/ OverrideCount(carOverrides) < OverrideCap(savedCars.cars)
  /\ isEditingOverride' = TRUE
  /\ pendingTimers' = (pendingTimers \ {editingTimeout}) \cup {NewTimer}
  /\ editingTimeout' = NewTimer
  /\ carOverrides' = WithOverride(carOverrides, carId, field, value)
  /\ UNCHANGED <<storage, savedCars, loaded, selectedCarIds, overrideDownPayment,
                 lastSortedOrder, sortEngine, cmpIdle>>
  /\ Rerank

\* the clear button of one override input; it is there while the text is not empty
clearCarOverride(carId, field) ==
  /\ Settled /\ TableShown
  /\ \E i \in 1..Len(sortedCars) : sortedCars[i] = carId
  /\ OverrideText(carOverrides, carId, field) # <<>>
  /\ carOverrides' = WithoutOverride(carOverrides, carId, field)
  /\ UNCHANGED <<storage, savedCars, loaded, selectedCarIds, overrideDownPayment,
                 isEditingOverride, lastSortedOrder, editingTimeout, pendingTimers,
                 sortEngine, cmpIdle>>
  /\ Rerank

\* the clear button of the rate inputs clears apr, then marketFactor
clearRateOverride(carId) ==
  /\ Settled /\ TableShown
  /\ \E i \in 1..Len(sortedCars) : sortedCars[i] = carId
  /\ \/ OverrideText(carOverrides, carId, "apr") # <<>>
     \/ OverrideText(carOverrides, carId, "marketFactor") # <<>>
  /\ carOverrides' =
       WithoutOverride(WithoutOverride(carOverrides, carId, "apr"), carId, "marketFactor")
  /\ UNCHANGED <<storage, savedCars, loaded, selectedCarIds, overrideDownPayment,
                 isEditingOverride, lastSortedOrder, editingTimeout, pendingTimers,
                 sortEngine, cmpIdle>>
  /\ Rerank

\* onChange of the down payment override for all cars, and its Clear button
setOverrideDownPayment(text) ==
  /\ Settled /\ TableShown
  /\ text # overrideDownPayment
  /\ overrideDownPayment' = text
  /\ UNCHANGED <<storage, savedCars, loaded, selectedCarIds, carOverrides,
                 isEditingOverride, lastSortedOrder, editingTimeout, pendingTimers,
                 sortEngine, cmpIdle>>
  /\ Rerank

\* the 1500 ms timer of the last override edit fires
EditingTimeoutFires ==
  /\ Settled
  /\ \E t \in pendingTimers :
       /\ pendingTimers' = pendingTimers \ {t}
       /\ isEditingOverride' = FALSE
  /\ UNCHANGED <<storage, savedCars, loaded, selectedCarIds, overrideDownPayment,
                 carOverrides, lastSortedOrder, editingTimeout, sortEngine, cmpIdle>>
  /\ Rerank

\* what the selection handlers and the removal leave alone
cmpEditingState == <<isEditingOverride, lastSortedOrder, editingTimeout, pendingTimers>>

\* the checkbox of a vehicle; it is disabled on the only selected vehicle
handleToggleCar(carId) ==
  /\ Settled /\ TableShown
  /\ carId \in IdSet(savedCars.cars)
  /\ ~(carId \in selectedCarIds /\ Cardinality(selectedCarIds) = 1)
  /\ selectedCarIds' =
       IF carId \in selectedCarIds
       THEN (IF selectedCarIds \ {carId} = {} /\ Len(savedCars.cars) > 1
             THEN selectedCarIds ELSE selectedCarIds \ {carId})
       ELSE selectedCarIds \cup {carId}
  /\ UNCHANGED <<storage, savedCars, loaded, overrideDownPayment, carOverrides,
                 cmpEditingState, sortEngine, cmpIdle>>
  /\ Rerank

handleSelectAll ==
  /\ Settled /\ TableShown
  /\ selectedCarIds' = IdSet(savedCars.cars)
  /\ UNCHANGED <<storage, savedCars, loaded, overrideDownPayment, carOverrides,
                 cmpEditingState, sortEngine, cmpIdle>>
  /\ Rerank

\* keeps the first vehicle of the collection selected
handleUnselectAll ==
  /\ Settled /\ TableShown
  /\ selectedCarIds' = {savedCars.cars[1].id}
  /\ UNCHANGED <<storage, savedCars, loaded, overrideDownPayment, carOverrides,
                 cmpEditingState, sortEngine, cmpIdle>>
  /\ Rerank

MakesOf(cars) == {cars[i].carMake : i \in 1..Len(cars)}

\* the button of a make: unselects the make when all of it is selected,
\* selects all of it otherwise
handleSelectByMake(make) ==
  /\ Settled /\ TableShown
  /\ make \in MakesOf(savedCars.cars)
  /\ LET cars == savedCars.cars
         fromMake == {cars[i].id : i \in {j \in 1..Len(cars) : cars[j].carMake = make}}
         others == {j \in 1..Len(cars) : cars[j].carMake # make}
         firstOther == cars[CHOOSE j \in others : \A k \in others : j <= k].id
     IN selectedCarIds' =
          IF fromMake \subseteq selectedCarIds
          THEN (IF selectedCarIds \ fromMake = {} /\ Len(cars) > 0 /\ others # {}
                THEN {firstOther} ELSE selectedCarIds \ fromMake)
          ELSE selectedCarIds \cup fromMake
  /\ UNCHANGED <<storage, savedCars, loaded, overrideDownPayment, carOverrides,
                 cmpEditingState, sortEngine, cmpIdle>>
  /\ Rerank

\* the delete button of a column of the table, confirmed; the selection
\* effect runs on the new collection
ComparisonDeleteCar(carId) ==
  /\ Settled /\ TableShown
  /\ \E i \in 1..Len(sortedCars) : sortedCars[i] = carId
  /\ LET updatedCars == FilterCars(savedCars.cars, IdSet(savedCars.cars) \ {carId})
         updatedSavedCars ==
           [cars |-> updatedCars,
            currentCarId |->
              IF savedCars.currentCarId = carId
              THEN (IF Len(updatedCars) > 0 THEN updatedCars[1].id ELSE 0)
              ELSE savedCars.currentCarId]
     IN /\ savedCars' = updatedSavedCars
        /\ selectedCarIds' = SyncSelection(updatedCars, selectedCarIds \ {carId})
        /\ storage' = saveToStorage(updatedSavedCars)
  /\ carOverrides' = WithoutCar(carOverrides, carId)
  /\ UNCHANGED <<loaded, overrideDownPayment, cmpEditingState, sortEngine, cmpIdle>>
  /\ Rerank

CmpIds == IdSet(StoredCollection.cars)
\* the override inputs that get typed into, and what is typed into the
\* down payment override for all cars
EditedFields == {"apr", "downPayment"}
EditedGlobalTexts == {<<>>, <<"3", "6", "0", "0">>}
\* an override input is emptied with its clear button
EditedTexts(field) == OverrideTexts[field] \ {<<>>}

UpdateAnyOverride ==
  \E carId \in CmpIds, field \in EditedFields :
    \E value \in EditedTexts(field) : updateCarOverride(carId, field, value)
ClearAnyOverride ==
  \E carId \in CmpIds, field \in OverrideFields : clearCarOverride(carId, field)
ClearAnyRateOverride == \E carId \in CmpIds : clearRateOverride(carId)
EditOverrideDownPayment == \E text \in EditedGlobalTexts : setOverrideDownPayment(text)
ToggleAnyCar == \E carId \in CmpIds : handleToggleCar(carId)
SelectAnyMake == \E make \in MakesOf(StoredCollection.cars) : handleSelectByMake(make)
DeleteAnyCar == \E carId \in CmpIds : ComparisonDeleteCar(carId)

CmpNext ==
  \/ LoadEffect
  \/ CaptureBaseline
  \/ UpdateAnyOverride
  \/ ClearAnyOverride
  \/ ClearAnyRateOverride
  \/ EditOverrideDownPayment
  \/ EditingTimeoutFires
  \/ ToggleAnyCar
  \/ handleSelectAll
  \/ handleUnselectAll
  \/ SelectAnyMake
  \/ DeleteAnyCar

SpecCmp == CmpInit /\ [][CmpNext]_vars

\* the comparison view on the collection of four vehicles, every vehicle
\* selected: down payment overrides of single vehicles and of all vehicles
PinInit ==
  /\ vinLookup = <<>>
  /\ advisory = <<>>
  /\ mig = <<>>
  /\ dblData = <<>>
  /\ dblPay = <<>>
  /\ storage = PinnedCollection
  /\ sortEngine \in SortEngines
  /\ sortedCars = <<>>
  /\ savedCars = NoCars
  /\ loaded = FALSE
  /\ selectedCarIds = {}
  /\ overrideDownPayment = <<>>
  /\ carOverrides = EmptyMap
  /\ isEditingOverride = FALSE
  /\ lastSortedOrder = <<>>
  /\ editingTimeout = 0
  /\ pendingTimers = {}
  /\ payCar = ScenarioCar
  /\ payPhase = "input"
  /\ payments = NoBreakdown
  /\ paymentsOvr = NoBreakdown
  /\ metrics = NoMetrics
  /\ data = ScenarioCar

PinIds == IdSet(PinnedCollection.cars)
PinOverrideDownPayment ==
  \E carId \in PinIds :
    \E value \in EditedTexts("downPayment") : updateCarOverride(carId, "downPayment", value)

PinNext ==
  \/ LoadEffect
  \/ CaptureBaseline
  \/ PinOverrideDownPayment
  \/ EditOverrideDownPayment
  \/ EditingTimeoutFires

SpecPin == PinInit /\ [][PinNext]_vars

\* What each scheduled step does to the variable it is known by: under Next
\* only LoadEffect sets loaded, only CaptureBaseline changes lastSortedOrder
\* and only EditingTimeoutFires removes a timer with isEditingOverride reset
LoadEffectRuns == ~loaded /\ loaded' = TRUE
CaptureRuns == CapturePending /\ lastSortedOrder' = sortedCars
TimerFires ==
  /\ Settled
  /\ \E t \in pendingTimers :
       /\ pendingTimers' = pendingTimers \ {t}
       /\ isEditingOverride' = FALSE

\* the same view with its scheduling: the mount effect and the capture
\* effect run after the render that queues them, and a timer that is not
\* cleared fires; nothing obliges the user to act
PinFairness ==
  /\ WF_loaded(LoadEffectRuns)
  /\ WF_lastSortedOrder(CaptureRuns)
  /\ WF_pendingTimers(TimerFires)

SpecPinFair == PinInit /\ [][PinNext]_vars /\ PinFairness

\* the same view when vehicles are also ticked and unticked: a vehicle
\* ticked while an edit is being waited out is ranked without a place in
\* lastSortedOrder
SelToggleCar == \E carId \in PinIds : handleToggleCar(carId)

SelNext ==
  \/ LoadEffect
  \/ CaptureBaseline
  \/ PinOverrideDownPayment
  \/ EditOverrideDownPayment
  \/ EditingTimeoutFires
  \/ SelToggleCar

SpecSel == PinInit /\ [][SelNext]_vars

(***************************************************************************)
(* The VIN lookup of the comparison view                                   *)
(***************************************************************************)
MaxFetches == 2  \* lookups awaiting their response at once

\* texts typed into a VIN input: a VIN of 17 characters in lower case, the
\* same in upper case, and a text of 3 characters
VinLower == Text(1)
VinUpper == Text(2)
VinShort == Text(3)
VinTexts == {VinLower, VinShort}
\* vin.length
VinLength(t) == IF t \in {VinLower, VinUpper} THEN 17 ELSE IF t = VinShort THEN 3 ELSE 0
\* vin.trim().toUpperCase()
VinUpperCase(t) == IF t = VinLower THEN VinUpper ELSE t

\* result.data of /api/fetch-vin-with-msrp: the VIN as sent, no make found,
\* an MSRP
VinData(sent) == [vin |-> sent, make |-> "", msrp |-> N(40000)]

\* the collection the lookups are made on: the first two stored vehicles
VinCollection == [StoredCollection EXCEPT !.cars = SubSeq(@, 1, 2)]

\* no VIN typed, no lookup under way
NoVinLookup == [inputs |-> EmptyMap, fetches |-> {}]

\* vinLookup[car.id], whose vin reads '' when there is no entry
VinEntry(carId) ==
  IF carId \in DOMAIN vinLookup.inputs THEN vinLookup.inputs[carId]
  ELSE [vin |-> Text(0), isLoading |-> FALSE, error |-> FALSE]

\* {...prev, [carId]: entry}
WithVinEntry(inputs, carId, entry) ==
  [c \in DOMAIN inputs \cup {carId} |-> IF c = carId THEN entry ELSE inputs[c]]

\* what the VIN handlers leave alone
vinIdle == <<payCar, payPhase, payments, paymentsOvr, metrics, data, dblVars, mig,
             advisory, overrideDownPayment, carOverrides, cmpEditingState, sortEngine,
             loaded>>

VinInit ==
  /\ vinLookup = NoVinLookup
  /\ advisory = <<>>
  /\ mig = <<>>
  /\ dblData = <<>>
  /\ dblPay = <<>>
  /\ storage = VinCollection
  /\ sortEngine = "binary"
  /\ sortedCars = <<>>
  /\ savedCars = NoCars
  /\ loaded = FALSE
  /\ selectedCarIds = {}
  /\ overrideDownPayment = <<>>
  /\ carOverrides = EmptyMap
  /\ isEditingOverride = FALSE
  /\ lastSortedOrder = <<>>
  /\ editingTimeout = 0
  /\ pendingTimers = {}
  /\ payCar = ScenarioCar
  /\ payPhase = "input"
  /\ payments = NoBreakdown
  /\ paymentsOvr = NoBreakdown
  /\ metrics = NoMetrics
  /\ data = ScenarioCar

\* onChange of the VIN input of a column
setVinInput(carId, text) ==
  /\ Settled /\ TableShown
  /\ \E i \in 1..Len(sortedCars) : sortedCars[i] = carId
  /\ text # VinEntry(carId).vin
  /\ vinLookup' =
       [vinLookup EXCEPT
          !.inputs = WithVinEntry(@, carId,
                       [vin |-> text, isLoading |-> FALSE, error |-> FALSE])]
  /\ UNCHANGED <<storage, savedCars, selectedCarIds, sortedCars, vinIdle>>

\* the lookup button, enabled when a VIN is typed and no lookup of the
\* column is under way: a text that is not 17 characters long is refused,
\* otherwise the request is sent; what follows the await keeps the
\* savedCars of the render in which the button was pressed
handleVINLookup(carId) ==
  /\ Settled /\ TableShown
  /\ \E i \in 1..Len(sortedCars) : sortedCars[i] = carId
  /\ ~VinEntry(carId).isLoading
  /\ VinEntry(carId).vin # Text(0)
  /\ IF VinLength(VinEntry(carId).vin) # 17
     THEN vinLookup' =
            [vinLookup EXCEPT
               !.inputs = WithVinEntry(@, carId,
                            [vin |-> VinEntry(carId).vin, isLoading |-> FALSE,
                             error |-> TRUE])]
     ELSE /\ Cardinality(vinLookup.fetches) < MaxFetches
          /\ vinLookup' =
               [inputs |-> WithVinEntry(vinLookup.inputs, carId,
                             [vin |-> VinEntry(carId).vin, isLoading |-> TRUE,
                              error |-> FALSE]),
                fetches |-> vinLookup.fetches \cup
                              {[carId |-> carId, vin |-> VinEntry(carId).vin,
                                savedCars |-> savedCars]}]
  /\ UNCHANGED <<storage, savedCars, selectedCarIds, sortedCars, vinIdle>>

\* {...c, vin: result.data.vin, carMake: result.data.make || c.carMake,
\*  msrp: result.data.msrp || c.msrp} (year, model and tier are not modelled)
WithVinData(c, d) ==
  [f \in DOMAIN c \cup {"vin"} |->
     IF f = "vin" THEN d.vin
     ELSE IF f = "carMake" THEN (IF d.make # "" THEN d.make ELSE c.carMake)
     ELSE IF f = "msrp" THEN Or(d.msrp, c.msrp)
     ELSE c[f]]

\* savedCars.cars.map(c => c.id === carId ? {...} : c)
MapVinData(cars, carId, d) ==
  [i \in 1..Len(cars) |-> IF cars[i].id = carId THEN WithVinData(cars[i], d) ELSE cars[i]]

\* mutant of VinLookupSucceeds: the vehicle is updated in the collection of
\* the moment the response arrives
VinLookupSucceedsOnCurrent(req) ==
  /\ Settled
  /\ req \in vinLookup.fetches
  /\ savedCars' =
       [savedCars EXCEPT
          !.cars = MapVinData(@, req.carId, VinData(VinUpperCase(req.vin)))]
  /\ storage' = saveToStorage(savedCars')
  /\ selectedCarIds' = SyncSelection(savedCars'.cars, selectedCarIds)
  /\ vinLookup' =
       [inputs |-> WithVinEntry(vinLookup.inputs, req.carId,
                     [vin |-> req.vin, isLoading |-> FALSE, error |-> FALSE]),
        fetches |-> vinLookup.fetches \ {req}]
  /\ UNCHANGED vinIdle
  /\ Rerank

\* the response arrives with success and data: the vehicle is updated in the
\* savedCars that the handler was called with, and that collection is set
\* and saved; the selection effect runs on the new collection
VinLookupSucceeds(req) ==
  /\ Settled
  /\ req \in vinLookup.fetches
  /\ savedCars' =
       [req.savedCars EXCEPT
          !.cars = MapVinData(@, req.carId, VinData(VinUpperCase(req.vin)))]
  /\ storage' = saveToStorage(savedCars')
  /\ selectedCarIds' = SyncSelection(savedCars'.cars, selectedCarIds)
  /\ vinLookup' =
       [inputs |-> WithVinEntry(vinLookup.inputs, req.carId,
                     [vin |-> req.vin, isLoading |-> FALSE, error |-> FALSE]),
        fetches |-> vinLookup.fetches \ {req}]
  /\ UNCHANGED vinIdle
  /\ Rerank

\* the response is not ok, or the request throws: the error is shown
VinLookupFails(req) ==
  /\ Settled
  /\ req \in vinLookup.fetches
  /\ vinLookup' =
       [inputs |-> WithVinEntry(vinLookup.inputs, req.carId,
                     [vin |-> req.vin, isLoading |-> FALSE, error |-> TRUE]),
        fetches |-> vinLookup.fetches \ {req}]
  /\ UNCHANGED <<storage, savedCars, selectedCarIds, sortedCars, vinIdle>>

\* the vehicles of the collection
VinIds == IdSet(VinCollection.cars)

\* the delete button of a column; the VIN inputs and the lookups under way
\* are left as they are
VinDeleteCar == \E carId \in VinIds : ComparisonDeleteCar(carId)

TypeAnyVin == \E carId \in VinIds, text \in VinTexts : setVinInput(carId, text)
LookupAnyVin == \E carId \in VinIds : handleVINLookup(carId)
AnyVinLookupSucceeds == \E req \in vinLookup.fetches : VinLookupSucceeds(req)
AnyVinLookupFails == \E req \in vinLookup.fetches : VinLookupFails(req)

VinNext ==
  \/ LoadEffect
  \/ CaptureBaseline
  \/ TypeAnyVin
  \/ LookupAnyVin
  \/ AnyVinLookupSucceeds
  \/ AnyVinLookupFails
  \/ VinDeleteCar

SpecVin == VinInit /\ [][VinNext]_vars

(***************************************************************************)
(* The capture effect on its own                                           *)
(***************************************************************************)
\* The view with the timer fired, a ranking waiting to be captured and
\* nothing else going on. Four vehicles, all selected: the stored down
\* payments put the payment of each of the first three above or below
\* the payment of the fourth; any vehicles overridden; any earlier ranking
\* of any of them as baseline.
LoopDownPayments == {0, 3600}
LoopIds == 1..4
LoopCars(dp) ==
  [i \in LoopIds |-> CmpCar(i, "Audi", 50, IF i \in DOMAIN dp THEN dp[i] ELSE 1800)]
\* every ordering of every subset of the ids
LoopOrders ==
  {<<>>} \cup
  UNION {{s \in [1..k -> LoopIds] : \A i, j \in 1..k : i # j => s[i] # s[j]} :
           k \in LoopIds}
\* the overrides of a set of vehicles: each has a fee override typed in
LoopOverrides(ids) ==
  IF ids = {} THEN EmptyMap
  ELSE [c \in ids |-> [f \in {"totalFees"} |-> <<"5", "0", "0">>]]

LoopInit ==
  /\ vinLookup = <<>>
  /\ advisory = <<>>
  /\ mig = <<>>
  /\ dblData = <<>>
  /\ dblPay = <<>>
  /\ sortEngine \in SortEngines
  /\ \E dp \in [1..3 -> LoopDownPayments] :
       savedCars = [cars |-> LoopCars(dp), currentCarId |-> 1]
  /\ storage = saveToStorage(savedCars)
  /\ loaded = TRUE
  /\ selectedCarIds = LoopIds
  /\ overrideDownPayment = <<>>
  /\ \E ids \in SUBSET LoopIds :
       /\ carOverrides = LoopOverrides(ids)
       /\ editingTimeout = IF ids = {} THEN 0 ELSE 1
  /\ isEditingOverride = FALSE
  /\ pendingTimers = {}
  /\ lastSortedOrder \in LoopOrders
  /\ sortedCars = sortedCarsOf(savedCars.cars, selectedCarIds, overrideDownPayment,
                               carOverrides, lastSortedOrder, sortEngine)
  /\ sortedCars # lastSortedOrder
  /\ payCar = ScenarioCar
  /\ payPhase = "input"
  /\ payments = NoBreakdown
  /\ paymentsOvr = NoBreakdown
  /\ metrics = NoMetrics
  /\ data = ScenarioCar

\* the effect runs after the render that queued it
SpecLoop == LoopInit /\ [][CaptureBaseline]_vars /\ WF_lastSortedOrder(CaptureRuns)

(***************************************************************************)
(* The calculator                                                          *)
(***************************************************************************)
MaxCars == 2    \* vehicles the collection holds before Add New Car is left alone
MountTime == 3  \* Date.now() when the calculator mounts
MaxCarId == 4   \* the last Date.now() an added vehicle gets as its id

\* createNewCar(), with Date.now() read as id
createNewCar(id) ==
  [id |-> id, carMake |-> "",
   msrp |-> N(0), capCostPercent |-> N(100), discount |-> N(0), discountAmount |-> N(0),
   residualPercent |-> N(60), apr |-> N(0), marketFactor |-> N(0), leaseTerm |-> N(36),
   salesTaxPercent |-> N(0), tagTitleFilingFees |-> N(0), handlingFees |-> N(700),
   otherFees |-> N(0), downPayment |-> N(0), equityTransfer |-> N(0),
   dueAtSigning |-> N(0)]

\* the collection the calculator finds: none, two vehicles, or the empty
\* collection the comparison view leaves when its last vehicle is removed
StoredPair ==
  [present |-> TRUE, cars |-> SubSeq(StoredCollection.cars, 1, 2), currentCarId |-> 2]
EmptiedStorage == [present |-> TRUE, cars |-> <<>>, currentCarId |-> 0]
CalcStorages == {NoStorage, StoredPair, EmptiedStorage}

\* what the calculator leaves alone
calcIdle == <<payCar, payPhase, payments, paymentsOvr, metrics, cmpVars, dblVars, mig, advisory, vinLookup>>

CalcInit ==
  /\ vinLookup = <<>>
  /\ advisory = <<>>
  /\ mig = <<>>
  /\ dblData = <<>>
  /\ dblPay = <<>>
  /\ storage \in CalcStorages
  /\ savedCars = NoCars
  /\ data = createNewCar(MountTime)
  /\ loaded = FALSE
  /\ payCar = ScenarioCar
  /\ payPhase = "input"
  /\ payments = NoBreakdown
  /\ paymentsOvr = NoBreakdown
  /\ metrics = NoMetrics
  /\ selectedCarIds = {}
  /\ overrideDownPayment = <<>>
  /\ carOverrides = EmptyMap
  /\ isEditingOverride = FALSE
  /\ lastSortedOrder = <<>>
  /\ editingTimeout = 0
  /\ pendingTimers = {}
  /\ sortEngine = "binary"
  /\ sortedCars = <<>>

\* the migration of the calculator's load effect, for records that carry
\* none of the legacy fee fields (their sums are 0, so handlingFees gets 700)
MigrateOnLoad(car) ==
  [car EXCEPT
     !.discount =
        IF car.discount = Undef
        THEN Mul(Sub(N(1), Div(car.capCostPercent, N(100))), N(100)) ELSE @,
     !.discountAmount =
        IF car.discountAmount = Undef
        THEN Div(Mul(car.msrp,
                     Or(IF car.discount = Undef
                        THEN Mul(Sub(N(1), Div(car.capCostPercent, N(100))), N(100))
                        ELSE car.discount, N(0))), N(100))
        ELSE @,
     !.salesTaxPercent = IF @ = Undef THEN N(0) ELSE @,
     !.tagTitleFilingFees = IF @ = Undef THEN N(0) ELSE @,
     !.handlingFees = IF @ = Undef THEN N(700) ELSE @,
     !.otherFees = IF @ = Undef THEN N(0) ELSE @,
     !.downPayment = IF @ = Undef THEN N(0) ELSE @,
     !.equityTransfer = IF @ = Undef THEN N(0) ELSE @,
     !.dueAtSigning = IF @ = Undef THEN N(0) ELSE @]

RECURSIVE MapMigrateOnLoad(_)
MapMigrateOnLoad(cars) ==
  IF cars = <<>> THEN <<>>
  ELSE <<MigrateOnLoad(Head(cars))>> \o MapMigrateOnLoad(Tail(cars))

\* the effect on savedCars: written once the first load is over and while
\* the collection holds a vehicle
SaveEffect(sc, st) == IF Len(sc.cars) > 0 THEN saveToStorage(sc) ELSE st

\* Date.now() does not run backwards: a new id is not below MountTime nor
\* below an id of the collection, and may repeat the last one
NewIds(cars) ==
  {id \in MountTime..MaxCarId : \A i \in 1..Len(cars) : cars[i].id <= id}

\* the collection and the vehicle edited after a saved collection is read
LoadedCollection(cars, currentCarId) ==
  IF Len(cars) = 0 THEN [cars |-> cars, currentCarId |-> currentCarId]
  ELSE IF currentCarId # 0 /\ currentCarId \in IdSet(cars)
  THEN [cars |-> cars, currentCarId |-> currentCarId]
  ELSE [cars |-> cars, currentCarId |-> cars[1].id]

\* the mount effect of the calculator, then the save effect of the render
\* it causes
CalcLoadEffect ==
  /\ ~loaded
  /\ loaded' = TRUE
  /\ IF storage.present
     THEN /\ savedCars' =
               LoadedCollection(MapMigrateOnLoad(storage.cars), storage.currentCarId)
          /\ data' = IF Len(savedCars'.cars) = 0 THEN data
                     ELSE CarById(savedCars'.cars, savedCars'.currentCarId)
     ELSE \E id \in NewIds(<<>>) :
            /\ savedCars' = [cars |-> <<createNewCar(id)>>, currentCarId |-> id]
            /\ data' = createNewCar(id)
  /\ storage' = SaveEffect(savedCars', storage)
  /\ UNCHANGED calcIdle

\* cars.map(car => car.id === updated.id ? updated : car)
ReplaceById(cars, updated) ==
  [i \in 1..Len(cars) |-> IF cars[i].id = updated.id THEN updated ELSE cars[i]]

\* handleInputChange(field, value): the vehicle edited and its entry of the
\* collection get the value; the save effect follows
handleInputChange(field, value) ==
  /\ loaded
  /\ value # data[field]
  /\ data' = [data EXCEPT ![field] = value]
  /\ savedCars' = IF Len(savedCars.cars) > 0
                  THEN [savedCars EXCEPT !.cars = ReplaceById(@, data')]
                  ELSE savedCars
  /\ storage' = IF savedCars' # savedCars THEN SaveEffect(savedCars', storage)
                ELSE storage
  /\ UNCHANGED <<loaded, calcIdle>>

\* onChange of the discount percent input and of the discount slider
DiscountPercentChange(text) ==
  /\ loaded
  /\ data' = [data EXCEPT
                !.discount = Or(ParseFloat(text), N(0)),
                !.discountAmount =
                   Div(Mul(data.msrp, Or(ParseFloat(text), N(0))), N(100)),
                !.capCostPercent =
                   Mul(Sub(N(1), Div(Or(ParseFloat(text), N(0)), N(100))), N(100))]
  /\ data' # data
  /\ UNCHANGED <<savedCars, storage, loaded, calcIdle>>

\* data.msrp > 0 ? (discountAmount / data.msrp) * 100 : 0
DiscountOfAmount(msrp, discountAmount) ==
  IF Less(N(0), msrp) THEN Mul(Div(discountAmount, msrp), N(100)) ELSE N(0)

\* onChange of the discount amount input
DiscountAmountChange(text) ==
  /\ loaded
  /\ data' = [data EXCEPT
                !.discount = DiscountOfAmount(data.msrp, Or(ParseFloat(text), N(0))),
                !.discountAmount = Or(ParseFloat(text), N(0)),
                !.capCostPercent =
                   Mul(Sub(N(1),
                           Div(DiscountOfAmount(data.msrp, Or(ParseFloat(text), N(0))),
                               N(100))), N(100))]
  /\ data' # data
  /\ UNCHANGED <<savedCars, storage, loaded, calcIdle>>

\* onChange of the APR input
AprChange(text) ==
  /\ loaded
  /\ data' = [data EXCEPT
                !.apr = Or(ParseFloat(text), N(0)),
                !.marketFactor = Div(Or(ParseFloat(text), N(0)), N(2400))]
  /\ data' # data
  /\ UNCHANGED <<savedCars, storage, loaded, calcIdle>>

\* onChange of the money factor input: the empty text resets both rates, a
\* text that parses sets both
MoneyFactorChange(text) ==
  /\ loaded
  /\ data' = IF text = <<>> THEN [data EXCEPT !.marketFactor = N(0), !.apr = N(0)]
             ELSE IF ~IsNaN(ParseFloat(text))
             THEN [data EXCEPT !.marketFactor = ParseFloat(text),
                               !.apr = Mul(ParseFloat(text), N(2400))]
             ELSE data
  /\ data' # data
  /\ UNCHANGED <<savedCars, storage, loaded, calcIdle>>

\* the vehicle picked in the selector becomes the vehicle edited
handleCarSelect(carId) ==
  /\ loaded
  /\ carId \in IdSet(savedCars.cars)
  /\ data' = CarById(savedCars.cars, carId)
  /\ savedCars' = [savedCars EXCEPT !.currentCarId = carId]
  /\ storage' = IF savedCars' # savedCars THEN SaveEffect(savedCars', storage)
                ELSE storage
  /\ UNCHANGED <<loaded, calcIdle>>

handleAddNewCar ==
  /\ loaded
  /\ Len(savedCars.cars) < MaxCars
  /\ \E id \in NewIds(savedCars.cars) :
       /\ savedCars' = [cars |-> Append(savedCars.cars, createNewCar(id)),
                        currentCarId |-> id]
       /\ data' = createNewCar(id)
  /\ storage' = SaveEffect(savedCars', storage)
  /\ UNCHANGED <<loaded, calcIdle>>

\* the calculator's handleDeleteCar, confirmed; the last vehicle stays
handleDeleteCar ==
  /\ loaded
  /\ Len(savedCars.cars) > 1
  /\ LET updatedCars ==
           FilterCars(savedCars.cars, IdSet(savedCars.cars) \ {data.id})
     IN /\ Len(updatedCars) > 0
        /\ savedCars' = [cars |-> updatedCars, currentCarId |-> updatedCars[1].id]
        /\ data' = updatedCars[1]
  /\ storage' = SaveEffect(savedCars', storage)
  /\ UNCHANGED <<loaded, calcIdle>>

\* the migration of handleLoadCarJSON, for a file that carries none of the
\* legacy fee fields (their sums are 0, so handlingFees gets 700)
MigrateOnFileLoad(car) ==
  [car EXCEPT
     !.discount =
        IF car.discount # Undef THEN @
        ELSE IF car.capCostPercent # Undef
        THEN Mul(Sub(N(1), Div(car.capCostPercent, N(100))), N(100)) ELSE N(0),
     !.discountAmount =
        IF car.discountAmount # Undef THEN @
        ELSE IF Truthy(car.msrp)
        THEN Div(Mul(car.msrp,
                     IF car.discount # Undef THEN car.discount
                     ELSE IF car.capCostPercent # Undef
                     THEN Mul(Sub(N(1), Div(car.capCostPercent, N(100))), N(100))
                     ELSE N(0)), N(100))
        ELSE N(0),
     !.salesTaxPercent = IF @ = Undef THEN N(0) ELSE @,
     !.tagTitleFilingFees = IF @ = Undef THEN N(0) ELSE @,
     !.handlingFees = IF @ = Undef THEN N(700) ELSE @,
     !.otherFees = IF @ = Undef THEN N(0) ELSE @,
     !.downPayment = IF @ = Undef THEN N(0) ELSE @,
     !.equityTransfer = IF @ = Undef THEN N(0) ELSE @,
     !.dueAtSigning = IF @ = Undef THEN N(0) ELSE @]

\* prev.cars.findIndex(c => c.id === id): the first position, 0 for none
RECURSIVE FindIndexFrom(_, _, _)
FindIndexFrom(cars, id, i) ==
  IF i > Len(cars) THEN 0
  ELSE IF cars[i].id = id THEN i ELSE FindIndexFrom(cars, id, i + 1)

\* the collection with the vehicle put at its id's first position, or appended
AddOrUpdate(cars, car, existingIndex) ==
  IF existingIndex > 0
  THEN [i \in 1..Len(cars) |-> IF i = existingIndex THEN car ELSE cars[i]]
  ELSE Append(cars, car)

\* the file read by handleLoadCarJSON holds the vehicle file, which becomes
\* migratedCar with the id carId (carToAdd.id || Date.now().toString())
LoadCarWithId(file, carId) ==
  /\ Len(savedCars.cars) < MaxCars \/ carId \in IdSet(savedCars.cars)
  /\ savedCars' =
       [cars |-> AddOrUpdate(savedCars.cars,
                             [MigrateOnFileLoad(file) EXCEPT !.id = carId],
                             FindIndexFrom(savedCars.cars, carId, 1)),
        currentCarId |-> carId]
  /\ data' = [MigrateOnFileLoad(file) EXCEPT !.id = carId]

\* handleLoadCarJSON with a file that parses to one vehicle; the id 0 stands
\* for a file without an id
handleLoadCarJSON(file) ==
  /\ loaded
  /\ IF file.id # 0 THEN LoadCarWithId(file, file.id)
     ELSE \E id \in NewIds(savedCars.cars) : LoadCarWithId(file, id)
  /\ storage' = SaveEffect(savedCars', storage)
  /\ UNCHANGED <<loaded, calcIdle>>

\* the files loaded: a vehicle saved before otherFees existed, and a vehicle
\* without an id
CarFiles ==
  {[CmpCar(2, "BMW", 55, 0) EXCEPT !.otherFees = Undef],
   [createNewCar(0) EXCEPT !.msrp = N(36000)]}

\* what is typed into the inputs that go through handleInputChange
\* (parseFloat(value) || 0), and into the discount and rate inputs
InputEdits == {<<"msrp", <<"3", "6", "0", "0", "0">>>>}
DiscountPercentTexts == {<<>>, <<"1", "0">>}
DiscountAmountTexts == {<<"3", "6", "0", "0">>}
AprTexts == {<<"6">>}
MoneyFactorTexts == {<<>>}
\* the options of the lease term select that get picked
LeaseTermPicks == {N(24)}
CalcIds == 1..MaxCarId

EditAnyInput ==
  \E e \in InputEdits : handleInputChange(e[1], Or(ParseFloat(e[2]), N(0)))
SelectLeaseTerm == \E t \in LeaseTermPicks : handleInputChange("leaseTerm", t)
EditDiscountPercent == \E text \in DiscountPercentTexts : DiscountPercentChange(text)
EditDiscountAmount == \E text \in DiscountAmountTexts : DiscountAmountChange(text)
EditApr == \E text \in AprTexts : AprChange(text)
EditMoneyFactor == \E text \in MoneyFactorTexts : MoneyFactorChange(text)
SelectAnyCar == \E carId \in CalcIds : handleCarSelect(carId)
LoadAnyCarJSON == \E file \in CarFiles : handleLoadCarJSON(file)

CalcNext ==
  \/ CalcLoadEffect
  \/ EditAnyInput
  \/ SelectLeaseTerm
  \/ EditDiscountPercent
  \/ EditDiscountAmount
  \/ EditApr
  \/ EditMoneyFactor
  \/ SelectAnyCar
  \/ handleAddNewCar
  \/ handleDeleteCar
  \/ LoadAnyCarJSON

SpecCalc == CalcInit /\ [][CalcNext]_vars

(***************************************************************************)
(* The pricing pipeline in doubles: getCarPaymentsWithOverride with every  *)
(* operation rounded as the engine rounds it                               *)
(***************************************************************************)
\* undefined where a double is expected; as a number it is NaN
DUndef == Dbl(0, <<>>, 1)
\* a value JavaScript treats as true: neither 0 nor NaN nor undefined
DTruthy(x) == x.s # 0 /\ x.m # <<>>
\* a || b
DOr(a, b) == IF DTruthy(a) THEN a ELSE b
\* Math.abs
DAbs(x) == IF x.s < 0 THEN DNeg(x) ELSE x
\* a <= b
DLessEq(a, b) == ~DIsNaN(a) /\ ~DIsNaN(b) /\ DCmp(a, b) <= 0
\* Math.max
DMax(a, b) == IF DIsNaN(a) \/ DIsNaN(b) THEN DNaN ELSE IF DLess(a, b) THEN b ELSE a

\* a value of the exact model as the double the engine holds for it
DOfValue(x) == IF x.k = "undef" THEN DUndef ELSE DOfNumber(x)
\* parseFloat(text)
DParseFloat(text) == DOfNumber(ParseFloat(text))

\* a vehicle with its numbers as doubles
DblFields == NumericFields \cup {"discountAmount", "capCostPercent"}
DblCar(car) == [f \in DblFields |-> DOfValue(car[f])]
DblNoOverrides == [f \in OverrideFields |-> DUndef]

\* car.apr || (car.marketFactor ? car.marketFactor * 2400 : 0)
DblStoredApr(car) ==
  DOr(car.apr,
      IF DTruthy(car.marketFactor) THEN DMul(car.marketFactor, DOfInt(2400)) ELSE DZero)

\* car.marketFactor || (car.apr ? car.apr / 2400 : 0)
DblStoredMoneyFactor(car) ==
  DOr(car.marketFactor,
      IF DTruthy(car.apr) THEN DDiv(car.apr, DOfInt(2400)) ELSE DZero)

DblStoredFees(car) ==
  DAdd(DAdd(DOr(car.tagTitleFilingFees, DZero), DOr(car.handlingFees, DZero)),
       DOr(car.otherFees, DZero))

\* mutant of DblResolveApr: the money factor is multiplied by 2000
DblResolveAprBy2000(car, ov) ==
  IF ov.apr # DUndef THEN ov.apr
  ELSE IF ov.marketFactor # DUndef THEN DMul(ov.marketFactor, DOfInt(2000))
  ELSE DblStoredApr(car)

DblResolveApr(car, ov) ==
  IF ov.apr # DUndef THEN ov.apr
  ELSE IF ov.marketFactor # DUndef THEN DMul(ov.marketFactor, DOfInt(2400))
  ELSE DblStoredApr(car)

DblResolveMoneyFactor(car, ov) ==
  IF ov.apr # DUndef THEN DDiv(ov.apr, DOfInt(2400))
  ELSE IF ov.marketFactor # DUndef THEN ov.marketFactor
  ELSE DblStoredMoneyFactor(car)

DblResolveDownPayment(car, odp, ov) ==
  IF ov.downPayment # DUndef THEN ov.downPayment
  ELSE IF odp # DUndef THEN odp
  ELSE DOr(car.downPayment, DZero)

\* the inputs of the pipeline with the overrides applied
DblOverrideInputs(car, odp, ov) ==
  [msrp |-> car.msrp,
   discount |-> IF ov.discount # DUndef THEN ov.discount ELSE DOr(car.discount, DZero),
   residualPercent |->
     IF ov.residualPercent # DUndef THEN ov.residualPercent ELSE car.residualPercent,
   leaseTerm |-> car.leaseTerm,
   totalFees |-> IF ov.totalFees # DUndef THEN ov.totalFees ELSE DblStoredFees(car),
   downPayment |-> DblResolveDownPayment(car, odp, ov),
   equityTransfer |-> DOr(car.equityTransfer, DZero),
   dueAtSigning |-> DOr(car.dueAtSigning, DZero),
   salesTaxPercent |-> DOr(car.salesTaxPercent, DZero),
   currentApr |-> DblResolveApr(car, ov),
   currentMoneyFactor |-> DblResolveMoneyFactor(car, ov)]

\* baseCapCost, totalDownPayment, salesTaxMultiplier, residualValue, monthlyRate
DblCapCostStep(i) ==
  i @@ [baseCapCost |->
          DMul(i.msrp, DSub(DOfInt(1), DDiv(i.discount, DOfInt(100)))),
        totalDownPayment |-> DAdd(DAdd(i.downPayment, i.equityTransfer), i.dueAtSigning),
        salesTaxMultiplier |-> DAdd(DOfInt(1), DDiv(i.salesTaxPercent, DOfInt(100))),
        residualValue |-> DDiv(DMul(i.msrp, i.residualPercent), DOfInt(100)),
        monthlyRate |-> DDiv(DDiv(i.currentApr, DOfInt(100)), DOfInt(12))]

DblAdjustedCapCostStep(b) ==
  b @@ [adjustedCapCost |-> DSub(DAdd(b.baseCapCost, b.totalFees), b.totalDownPayment)]

DblDepreciationStep(b) ==
  b @@ [adjustedCapCostWithTax |-> DMul(b.adjustedCapCost, b.salesTaxMultiplier),
        depreciation |-> DSub(b.adjustedCapCost, b.residualValue),
        monthlyFinanceCharge |->
          DMul(DAdd(b.adjustedCapCost, b.residualValue), b.monthlyRate)]

DblMonthlyDepreciationStep(b) ==
  b @@ [monthlyDepreciation |-> DDiv(b.depreciation, b.leaseTerm)]

DblBaseMonthlyPaymentStep(b) ==
  b @@ [baseMonthlyPayment |-> DAdd(b.monthlyDepreciation, b.monthlyFinanceCharge)]

DblTotalMonthlyPaymentStep(b) ==
  b @@ [totalMonthlyPayment |-> DMul(b.baseMonthlyPayment, b.salesTaxMultiplier)]

DblPaymentSteps(i) ==
  DblTotalMonthlyPaymentStep(DblBaseMonthlyPaymentStep(DblMonthlyDepreciationStep(
    DblDepreciationStep(DblAdjustedCapCostStep(DblCapCostStep(i))))))

\* getCarPaymentsWithOverride on doubles
DblGetCarPaymentsWithOverride(car, odp, ov) ==
  Fields(DblPaymentSteps(DblOverrideInputs(car, odp, ov)), BreakdownFields)

(***************************************************************************)
(* The calculator's rate and discount handlers in doubles                  *)
(***************************************************************************)
MaxRowApr == 12  \* rows of the preview table above this APR are not clicked

\* mutant of DblAprChange: the money factor is derived as apr / 2000
DblAprChangeBy2000(text) ==
  /\ dblPay.phase = "edit"
  /\ dblData' = [dblData EXCEPT
                   !.apr = DOr(DParseFloat(text), DZero),
                   !.marketFactor = DDiv(DOr(DParseFloat(text), DZero), DOfInt(2000))]
  /\ UNCHANGED dblPay

\* onChange of the APR input
DblAprChange(text) ==
  /\ dblPay.phase = "edit"
  /\ dblData' = [dblData EXCEPT
                   !.apr = DOr(DParseFloat(text), DZero),
                   !.marketFactor = DDiv(DOr(DParseFloat(text), DZero), DOfInt(2400))]
  /\ UNCHANGED dblPay

\* onChange of the money factor input
DblMoneyFactorChange(text) ==
  /\ dblPay.phase = "edit"
  /\ dblData' =
       IF text = <<>> THEN [dblData EXCEPT !.marketFactor = DZero, !.apr = DZero]
       ELSE IF ~DIsNaN(DParseFloat(text))
       THEN [dblData EXCEPT !.marketFactor = DParseFloat(text),
                            !.apr = DMul(DParseFloat(text), DOfInt(2400))]
       ELSE dblData
  /\ UNCHANGED dblPay

RECURSIVE DblRowsFrom(_, _)
\* for (let i = startApr; i <= endApr; i += 0.5): apr i, moneyFactor i / 2400
DblRowsFrom(i, endApr) ==
  IF ~DLessEq(i, endApr) THEN <<>>
  ELSE <<[apr |-> i, moneyFactor |-> DDiv(i, DOfInt(2400))]>>
       \o DblRowsFrom(DAdd(i, DOfNumber(Fin(1, 2))), endApr)

\* the rows of the loop for baseApr = currentApr || 5
DblLoopRows(baseApr) ==
  DblRowsFrom(DMax(DZero, DSub(baseApr, DOfInt(5))), DAdd(baseApr, DOfInt(5)))

\* rates.some(r => Math.abs(r.apr - currentApr) < 0.01)
DblHasRow(rows, currentApr) ==
  \E k \in 1..Len(rows) :
    DLess(DAbs(DSub(rows[k].apr, currentApr)), DOfNumber(Fin(1, 100)))

\* rows with the entered rate pushed and sorted by apr
DblWithEntered(rows, entered) ==
  SelectSeq(rows, LAMBDA r : DLess(r.apr, entered.apr)) \o <<entered>>
  \o SelectSeq(rows, LAMBDA r : ~DLess(r.apr, entered.apr))

DblRowsFor(rows, currentApr, currentMoneyFactor) ==
  IF DLess(DZero, currentApr) /\ ~DblHasRow(rows, currentApr)
  THEN DblWithEntered(rows, [apr |-> currentApr, moneyFactor |-> currentMoneyFactor])
  ELSE rows

\* the rates of getMonthlyPayments for the vehicle d
DblRates(d) ==
  DblRowsFor(DblLoopRows(DOr(DblStoredApr(d), DOfInt(5))),
             DblStoredApr(d), DblStoredMoneyFactor(d))

\* the row clicked becomes the rate of the vehicle
DblSelectRate(rate) ==
  /\ DLessEq(rate.apr, DOfInt(MaxRowApr))
  /\ dblData' = [dblData EXCEPT !.apr = rate.apr, !.marketFactor = rate.moneyFactor]

\* onClick of row k of the preview table
DblRateRowClick(k) ==
  /\ dblPay.phase = "edit"
  /\ k <= Len(DblRates(dblData))
  /\ DblSelectRate(DblRates(dblData)[k])
  /\ UNCHANGED dblPay

\* onChange of the discount percent input and of the discount slider
DblDiscountPercentChange(text) ==
  /\ dblPay.phase = "edit"
  /\ dblData' =
       [dblData EXCEPT
          !.discount = DOr(DParseFloat(text), DZero),
          !.discountAmount =
             DDiv(DMul(dblData.msrp, DOr(DParseFloat(text), DZero)), DOfInt(100)),
          !.capCostPercent =
             DMul(DSub(DOfInt(1), DDiv(DOr(DParseFloat(text), DZero), DOfInt(100))),
                  DOfInt(100))]
  /\ UNCHANGED dblPay

\* mutant of DblDiscountOfAmount: the quotient is not scaled to a percentage
DblDiscountOfAmountUnscaled(msrp, discountAmount) ==
  IF DLess(DZero, msrp) THEN DDiv(discountAmount, msrp) ELSE DZero

\* data.msrp > 0 ? (discountAmount / data.msrp) * 100 : 0
DblDiscountOfAmount(msrp, discountAmount) ==
  IF DLess(DZero, msrp) THEN DMul(DDiv(discountAmount, msrp), DOfInt(100)) ELSE DZero

\* the three fields the amount input sets, from the discount it derives
DblWithAmount(d, discountAmount, discount) ==
  [d EXCEPT !.discount = discount,
            !.discountAmount = discountAmount,
            !.capCostPercent =
               DMul(DSub(DOfInt(1), DDiv(discount, DOfInt(100))), DOfInt(100))]

\* onChange of the discount amount input; parsed is parseFloat(e.target.value)
DblDiscountAmountChange(parsed) ==
  /\ dblPay.phase = "edit"
  /\ dblData' = DblWithAmount(dblData, DOr(parsed, DZero),
                              DblDiscountOfAmount(dblData.msrp, DOr(parsed, DZero)))
  /\ UNCHANGED dblPay

\* getCarPaymentsWithOverride(car, undefined, {apr}) and
\* getCarPaymentsWithOverride(car, undefined, {marketFactor: apr / 2400})
DblEvalDuality(apr) ==
  /\ dblPay.phase = "edit"
  /\ dblPay' =
       [phase |-> "evaluated",
        apr |-> apr,
        byApr |-> DblGetCarPaymentsWithOverride(
                    dblData, DUndef, [DblNoOverrides EXCEPT !.apr = apr]),
        byFactor |-> DblGetCarPaymentsWithOverride(
                       dblData, DUndef,
                       [DblNoOverrides EXCEPT !.marketFactor = DDiv(apr, DOfInt(2400))])]
  /\ UNCHANGED dblData

\* the vehicles the handlers are applied to
DblVehicles == {ScenarioCar, createNewCar(1)}
\* what is typed into the inputs
DblAprTexts == {<<"0", ".", "1">>, <<"6">>}
DblMoneyFactorTexts == {<<>>, <<"0", ".", "0", "0", "2", "5">>, <<".">>}
DblDiscountPercentTexts == {<<"3", ".", "5">>, <<"1", "0">>}
DblDiscountAmountTexts == {<<"3", "6", "0", "0">>}
\* the rows clicked
DblRowPicks == {1, 20}
\* the APR overrides the two breakdowns are computed for
DblDualityTexts == {<<"0", ".", "1">>, <<"3">>, <<"2", "1">>}

DblNoBreakdown == [f \in BreakdownFields |-> DZero]

dblIdle == <<payVars, storage, savedCars, loaded, cmpVars, data, mig, advisory, vinLookup>>

DblInit ==
  /\ vinLookup = <<>>
  /\ advisory = <<>>
  /\ mig = <<>>
  /\ \E car \in DblVehicles : dblData = DblCar(car)
  /\ dblPay = [phase |-> "edit", apr |-> DZero,
               byApr |-> DblNoBreakdown, byFactor |-> DblNoBreakdown]
  /\ payCar = ScenarioCar
  /\ payPhase = "input"
  /\ payments = NoBreakdown
  /\ paymentsOvr = NoBreakdown
  /\ metrics = NoMetrics
  /\ storage = NoStorage
  /\ savedCars = NoCars
  /\ loaded = FALSE
  /\ selectedCarIds = {}
  /\ overrideDownPayment = <<>>
  /\ carOverrides = EmptyMap
  /\ isEditingOverride = FALSE
  /\ lastSortedOrder = <<>>
  /\ editingTimeout = 0
  /\ pendingTimers = {}
  /\ sortEngine = "binary"
  /\ sortedCars = <<>>
  /\ data = ScenarioCar

EditDblApr == \E text \in DblAprTexts : DblAprChange(text)
EditDblMoneyFactor == \E text \in DblMoneyFactorTexts : DblMoneyFactorChange(text)
ClickDblRateRow == \E k \in DblRowPicks : DblRateRowClick(k)
EditDblDiscountPercent ==
  \E text \in DblDiscountPercentTexts : DblDiscountPercentChange(text)
EditDblDiscountAmount ==
  \E text \in DblDiscountAmountTexts : DblDiscountAmountChange(DParseFloat(text))
\* the amount shown is entered again: a number prints as the shortest text
\* that parses back to it
RetypeDblDiscountAmount == DblDiscountAmountChange(dblData.discountAmount)
EvalAnyDuality == \E text \in DblDualityTexts : DblEvalDuality(DParseFloat(text))

DblNext ==
  \/ (EditDblApr /\ UNCHANGED dblIdle)
  \/ (EditDblMoneyFactor /\ UNCHANGED dblIdle)
  \/ (ClickDblRateRow /\ UNCHANGED dblIdle)
  \/ (EditDblDiscountPercent /\ UNCHANGED dblIdle)
  \/ (EditDblDiscountAmount /\ UNCHANGED dblIdle)
  \/ (RetypeDblDiscountAmount /\ UNCHANGED dblIdle)
  \/ (EvalAnyDuality /\ UNCHANGED dblIdle)

SpecDbl == DblInit /\ [][DblNext]_vars

(***************************************************************************)
(* migrateCarData applied to stored records                                *)
(***************************************************************************)
MaxMissing == 2   \* later-added fields a stored record lacks
MaxMigrations == 2  \* times migrateCarData is applied to one record

\* the fields added after the first schema
LaterFields ==
  {"discount", "discountAmount", "ficoScore8", "salesTaxPercent",
   "tagTitleFilingFees", "handlingFees", "otherFees", "downPayment",
   "equityTransfer", "dueAtSigning", "vin", "dealership", "notes"}

\* a record with every field of LeaseData the migration looks at
FullCar(car, ficoScore8, text) ==
  car @@ [ficoScore8 |-> N(ficoScore8), vin |-> Text(text),
          dealership |-> Text(text), notes |-> Text(text)]

\* createNewCar() with its descriptive fields
NewFullCar == FullCar(createNewCar(MountTime), 0, 0)

\* complete records: the scenario's vehicle with its fields filled in, and a
\* new vehicle
CompleteRecords == {FullCar(ScenarioCar, 720, 1), NewFullCar}

RECURSIVE WithMissing(_)
\* the complete records with at most k later-added fields taken out
WithMissing(k) ==
  IF k = 0 THEN CompleteRecords
  ELSE LET prev == WithMissing(k - 1)
       IN prev \cup {[c EXCEPT ![f] = Undef] : c \in prev, f \in LaterFields}

migIdle == <<payVars, storage, savedCars, loaded, cmpVars, data, dblVars, advisory, vinLookup>>

MigInit ==
  /\ vinLookup = <<>>
  /\ advisory = <<>>
  /\ \E car \in WithMissing(MaxMissing) :
       mig = [stored |-> car, prev |-> car, car |-> car, runs |-> 0]
  /\ dblData = <<>>
  /\ dblPay = <<>>
  /\ payCar = ScenarioCar
  /\ payPhase = "input"
  /\ payments = NoBreakdown
  /\ paymentsOvr = NoBreakdown
  /\ metrics = NoMetrics
  /\ storage = NoStorage
  /\ savedCars = NoCars
  /\ loaded = FALSE
  /\ selectedCarIds = {}
  /\ overrideDownPayment = <<>>
  /\ carOverrides = EmptyMap
  /\ isEditingOverride = FALSE
  /\ lastSortedOrder = <<>>
  /\ editingTimeout = 0
  /\ pendingTimers = {}
  /\ sortEngine = "binary"
  /\ sortedCars = <<>>
  /\ data = ScenarioCar

\* the record goes through migrateCarData once more
Migrate ==
  /\ mig.runs < MaxMigrations
  /\ mig' = [stored |-> mig.stored, prev |-> mig.car,
             car |-> migrateCarData(mig.car), runs |-> mig.runs + 1]
  /\ UNCHANGED migIdle

MigNext == Migrate

SpecMig == MigInit /\ [][MigNext]_vars

\* the fields whose default C18 names, and the fields absent from the record
\* as it was stored
NamedDefaults == LaterFields \ {"discountAmount"}
Missing(car) == {f \in LaterFields : car[f] = Undef}

\* C18 as stated: the migrated record has, in each field that was missing,
\* the value of that field in createNewCar() (700 for handlingFees, 0 for the
\* other numbers, discount included, '' for vin, dealership and notes), each
\* field that was present as it was, and a second migration changes nothing
C18_DefaultsOfNewCar ==
  mig.runs >= 1 =>
    /\ \A f \in NamedDefaults \cap Missing(mig.stored) : mig.car[f] = NewFullCar[f]
    /\ \A f \in DOMAIN mig.stored \ Missing(mig.stored) : mig.car[f] = mig.stored[f]
    /\ mig.runs >= 2 => mig.car = mig.prev

\* C18 amended: as stated for every named field but discount; a missing
\* discount becomes (1 - capCostPercent / 100) * 100, the discount the stored
\* capCostPercent stands for, and a missing discountAmount becomes
\* msrp * discount / 100 of the migrated discount
C18_DefaultsAndDerivedDiscount ==
  mig.runs >= 1 =>
    /\ \A f \in (NamedDefaults \ {"discount"}) \cap Missing(mig.stored) :
         mig.car[f] = NewFullCar[f]
    /\ "discount" \in Missing(mig.stored) =>
         mig.car.discount =
           Mul(Sub(N(1), Div(mig.stored.capCostPercent, N(100))), N(100))
    /\ "discountAmount" \in Missing(mig.stored) =>
         mig.car.discountAmount =
           Div(Mul(mig.stored.msrp, Or(mig.car.discount, N(0))), N(100))
    /\ \A f \in DOMAIN mig.stored \ Missing(mig.stored) : mig.car[f] = mig.stored[f]
    /\ mig.runs >= 2 => mig.car = mig.prev

\* a record stored without discount and without handlingFees, with a
\* capCostPercent of 95, has been migrated twice
C18_Witness ==
  /\ mig.runs = 2
  /\ Missing(mig.stored) = {"discount", "handlingFees"}
  /\ mig.stored.capCostPercent = N(95)
  /\ mig.car.discount = N(5)
  /\ mig.car.handlingFees = N(700)

(***************************************************************************)
(* The expected-residual advisory of the comparison table                  *)
(***************************************************************************)
\* Math.min and Math.max of two numbers
MathMin(a, b) ==
  IF IsNaN(a) \/ IsNaN(b) THEN NaN ELSE IF Less(ToNumber(b), ToNumber(a)) THEN b ELSE a
MathMax(a, b) ==
  IF IsNaN(a) \/ IsNaN(b) THEN NaN ELSE IF Less(ToNumber(a), ToNumber(b)) THEN b ELSE a

\* mutant of MileageAdjusted: up to 7500 miles a year add 2.5 as well
MileageAdjustedFlat(residual, milesPerYear) ==
  IF ~Less(N(10000), milesPerYear) /\ ~IsNaN(milesPerYear)
  THEN Add(residual, Fin(5, 2))
  ELSE residual

\* the residual after the mileage adjustment
MileageAdjusted(residual, milesPerYear) ==
  IF ~Less(N(7500), milesPerYear) /\ ~IsNaN(milesPerYear) THEN Add(residual, Fin(7, 2))
  ELSE IF ~Less(N(10000), milesPerYear) /\ ~IsNaN(milesPerYear)
  THEN Add(residual, Fin(5, 2))
  ELSE residual

\* getExpectedResidualPercent(leaseTerm, milesPerYear = 12000)
getExpectedResidualPercent(leaseTerm, milesPerYear) ==
  MathMax(N(0), MathMin(N(100),
    MileageAdjusted(
      MathMax(N(0), MathMin(N(100),
        Sub(N(60), Mul(Sub(leaseTerm, N(36)), Fin(1, 2))))),
      IF milesPerYear = Undef THEN N(12000) ELSE milesPerYear)))

\* the cell of the Expected Residual % row: the expected residual for
\* car.milesPerYear || 12000 and isGood = difference >= -2
ExpectedResidualCell(car) ==
  [expected |->
     getExpectedResidualPercent(car.leaseTerm, Or(car.milesPerYear, N(12000))),
   isGood |->
     ~Less(Sub(car.residualPercent,
               getExpectedResidualPercent(car.leaseTerm,
                                          Or(car.milesPerYear, N(12000)))),
           N(-2)) /\
     ~IsNaN(Sub(car.residualPercent,
                getExpectedResidualPercent(car.leaseTerm,
                                           Or(car.milesPerYear, N(12000)))))]

\* the lease terms, yearly mileages and residuals the advisory is computed for
AdvisoryTerms == {-50, -44, 0, 12, 24, 36, 39, 48, 155, 156, 163, 400}
AdvisoryMiles == {Undef, N(0), N(5000), N(7500), N(7501), N(10000), N(10001),
                  N(12000), N(15000)}
AdvisoryResiduals == {N(0), N(50), Fin(579, 10), N(58), Fin(123, 2), N(100)}

advIdle == <<payVars, storage, savedCars, loaded, cmpVars, data, dblVars, mig, vinLookup>>

AdvInit ==
  /\ vinLookup = <<>>
  /\ \E t \in AdvisoryTerms, m \in AdvisoryMiles, r \in AdvisoryResiduals :
       advisory = [car |-> [leaseTerm |-> N(t), milesPerYear |-> m,
                            residualPercent |-> r],
                   phase |-> "input", direct |-> N(0), cell |-> <<>>]
  /\ mig = <<>>
  /\ dblData = <<>>
  /\ dblPay = <<>>
  /\ payCar = ScenarioCar
  /\ payPhase = "input"
  /\ payments = NoBreakdown
  /\ paymentsOvr = NoBreakdown
  /\ metrics = NoMetrics
  /\ storage = NoStorage
  /\ savedCars = NoCars
  /\ loaded = FALSE
  /\ selectedCarIds = {}
  /\ overrideDownPayment = <<>>
  /\ carOverrides = EmptyMap
  /\ isEditingOverride = FALSE
  /\ lastSortedOrder = <<>>
  /\ editingTimeout = 0
  /\ pendingTimers = {}
  /\ sortEngine = "binary"
  /\ sortedCars = <<>>
  /\ data = ScenarioCar

\* the function is called with the vehicle's own mileage
EvalExpectedResidual ==
  /\ advisory.phase = "input"
  /\ advisory' =
       [advisory EXCEPT
          !.phase = "called",
          !.direct = getExpectedResidualPercent(advisory.car.leaseTerm,
                                                advisory.car.milesPerYear)]
  /\ UNCHANGED advIdle

\* the cell of the row is rendered
RenderExpectedResidual ==
  /\ advisory.phase = "called"
  /\ advisory' = [advisory EXCEPT !.phase = "rendered",
                                  !.cell = ExpectedResidualCell(advisory.car)]
  /\ UNCHANGED advIdle

AdvNext ==
  \/ EvalExpectedResidual
  \/ RenderExpectedResidual

SpecAdv == AdvInit /\ [][AdvNext]_vars

\* x held between 0 and 100
Clamp(x) == IF Less(x, N(0)) THEN N(0) ELSE IF Less(N(100), x) THEN N(100) ELSE x
\* 3.5 up to 7500 miles a year, 2.5 up to 10000, nothing above
MilesBonus(miles) ==
  IF miles.n <= 7500 THEN Fin(7, 2) ELSE IF miles.n <= 10000 THEN Fin(5, 2) ELSE N(0)
\* the mileage a call without one stands for
MilesOrDefault(m) == IF m = Undef THEN N(12000) ELSE m

OverrideEditStep ==
  \/ UpdateAnyOverride
  \/ ClearAnyOverride
  \/ ClearAnyRateOverride
  \/ EditOverrideDownPayment

\* C1: no edit of an override (updateCarOverride, clearCarOverride, the
\* global down payment override) changes a stored vehicle record: savedCars
\* and what is saved to storage are the same after the step as before it.
C1_OverridesNotWrittenBack ==
  [][OverrideEditStep => (savedCars' = savedCars /\ storage' = storage)]_vars

\* overrides of both kinds are in force and the collection is the one loaded
C1_Witness ==
  /\ loaded
  /\ \E c \in DOMAIN carOverrides : hasOverride(carOverrides, c)
  /\ overrideDownPayment # <<>>
  /\ savedCars.cars = MapMigrate(StoredCollection.cars)
  /\ storage = StoredCollection

\* C2: a collection that holds a vehicle holds one after every step: the
\* removal of the last remaining vehicle is rejected.
C2_CollectionNeverEmpties ==
  [][Len(savedCars.cars) > 0 => Len(savedCars'.cars) > 0]_vars

\* the payment a vehicle of the collection is ranked by
RankedPayment(cars, odpText, co, carId) ==
  getCarPaymentsWithOverride(
    CarById(cars, carId), OverrideDownPaymentValue(odpText),
    GetCarOverrides(co, carId)).totalMonthlyPayment

\* the vehicle is ranked by the same payment before and after the step
SamePayment(carId) ==
  RankedPayment(savedCars'.cars, overrideDownPayment', carOverrides', carId)
    = RankedPayment(savedCars.cars, overrideDownPayment, carOverrides, carId)

\* the step leaves the collection, the selection, the overrides and the
\* captured order alone, and the payment of every overridden vehicle too
OnlyUnpinnedPaymentsChange ==
  /\ loaded
  /\ savedCars' = savedCars
  /\ selectedCarIds' = selectedCarIds
  /\ carOverrides' = carOverrides
  /\ lastSortedOrder' = lastSortedOrder
  /\ \A x \in selectedCarIds :
       hasOverride(carOverrides, x) => SamePayment(x)

\* C10: over a step that changes only payments of vehicles without an
\* override, a vehicle with an override keeps its place relative to every
\* other overridden vehicle and to every vehicle whose payment stayed the same.
C10_PinningStability ==
  [][OnlyUnpinnedPaymentsChange =>
       \A x, y \in selectedCarIds :
         (/\ x # y
          /\ hasOverride(carOverrides, x)
          /\ \/ hasOverride(carOverrides, y)
             \/ SamePayment(y))
         => (Before(sortedCars, x, y) <=> Before(sortedCars', x, y))]_vars

(***************************************************************************)
(* Properties of the calculator                                            *)
(***************************************************************************)
\* C3: once an edit of the calculator is processed, storage holds the
\* vehicle being edited as it is in memory: every add, delete and edit of a
\* field (discount percent, discount amount, APR and money factor included)
\* is followed by a write of the collection.
C3_StorageHoldsEditedVehicle ==
  (loaded /\ Len(savedCars.cars) > 0)
    => /\ storage.present
       /\ \E i \in 1..Len(storage.cars) : storage.cars[i] = JsonCar(data)

\* the selected vehicles of the collection
SelectedIds == selectedCarIds \cap IdSet(savedCars.cars)

\* the ranking takes the branch that sorts every vehicle by payment
PlainRanking ==
  \/ lastSortedOrder = <<>>
  \/ \A c \in SelectedIds : ~hasOverride(carOverrides, c)

\* 1-based position of the vehicle in savedCars.cars
CollectionPosition(carId) ==
  CHOOSE i \in 1..Len(savedCars.cars) : savedCars.cars[i].id = carId

\* the payment the vehicle is ranked by in this state
CurrentPayment(carId) ==
  RankedPayment(savedCars.cars, overrideDownPayment, carOverrides, carId)

\* C11: without a pinned vehicle sortedCars holds exactly the selected
\* vehicles, each once, in ascending order of totalMonthlyPayment under the
\* global down payment override, and vehicles of equal payment stand in the
\* order of the collection.
C11_AscendingRanking ==
  (loaded /\ PlainRanking) =>
    /\ {sortedCars[i] : i \in 1..Len(sortedCars)} = SelectedIds
    /\ Len(sortedCars) = Cardinality(SelectedIds)
    /\ \A i, j \in 1..Len(sortedCars) :
         i < j =>
           \/ Less(CurrentPayment(sortedCars[i]), CurrentPayment(sortedCars[j]))
           \/ /\ CurrentPayment(sortedCars[i]) = CurrentPayment(sortedCars[j])
              /\ CollectionPosition(sortedCars[i]) < CollectionPosition(sortedCars[j])

\* three vehicles ranked under a global override, two of them with the same
\* payment and one that precedes it in the collection ranked after it
C11_Witness ==
  /\ loaded /\ PlainRanking
  /\ overrideDownPayment # <<>>
  /\ Len(sortedCars) = 3
  /\ \E i, j \in 1..3 :
       /\ i < j
       /\ CurrentPayment(sortedCars[i]) = CurrentPayment(sortedCars[j])
  /\ \E i, j \in 1..3 :
       /\ i < j
       /\ CollectionPosition(sortedCars[i]) > CollectionPosition(sortedCars[j])


(***************************************************************************)
(* Properties of the rate and discount conversions in doubles (checked     *)
(* under SpecDbl)                                                          *)
(***************************************************************************)
\* 2^(-k) as a double
DPow2Neg(k) == Dbl(1, BigPow2(52), (-52) - k)
\* |a - b| <= 2^(-k) * scale
DCloseBy(a, b, k, scale) == DLessEq(DAbs(DSub(a, b)), DMul(DPow2Neg(k), scale))
\* a and b differ by at most 2^(-k) of the larger of them
DWithin(a, b, k) == DCloseBy(a, b, k, DMax(DAbs(a), DAbs(b)))

\* C12 as stated: an override {apr: a} and an override {marketFactor: a / 2400}
\* give the same monthlyFinanceCharge and the same totalMonthlyPayment
C12_DualityIdentical ==
  dblPay.phase = "evaluated" =>
    /\ dblPay.byApr.monthlyFinanceCharge = dblPay.byFactor.monthlyFinanceCharge
    /\ dblPay.byApr.totalMonthlyPayment = dblPay.byFactor.totalMonthlyPayment

\* C12 amended: the two overrides give the same monthlyFinanceCharge up to
\* 2^-50 of its size, and totalMonthlyPayment up to 2^-48 of the sizes of the
\* finance charge and the payment together; every other step of the breakdown
\* that the rate does not enter is the same double
C12_DualityWithinRounding ==
  dblPay.phase = "evaluated" =>
    /\ DWithin(dblPay.byApr.monthlyFinanceCharge,
               dblPay.byFactor.monthlyFinanceCharge, 50)
    /\ DCloseBy(dblPay.byApr.totalMonthlyPayment, dblPay.byFactor.totalMonthlyPayment,
                48, DAdd(DAbs(dblPay.byApr.monthlyFinanceCharge),
                         DAbs(dblPay.byApr.totalMonthlyPayment)))
    /\ dblPay.byApr.monthlyDepreciation = dblPay.byFactor.monthlyDepreciation
    /\ dblPay.byApr.adjustedCapCost = dblPay.byFactor.adjustedCapCost

\* the two overrides were evaluated for a positive APR and their finance
\* charges are different doubles
C12_Witness ==
  /\ dblPay.phase = "evaluated"
  /\ DLess(DZero, dblPay.apr)
  /\ DLess(DZero, dblPay.byApr.monthlyFinanceCharge)
  /\ dblPay.byApr.monthlyFinanceCharge # dblPay.byFactor.monthlyFinanceCharge

\* C13 as stated: whatever APR edits, money factor edits (clearing and
\* unparsable text included) and clicks on a row of the preview table have
\* been made, the vehicle being edited has apr = marketFactor * 2400
C13_RatesInSync == dblData.apr = DMul(dblData.marketFactor, DOfInt(2400))

\* C13 amended: after any such edits apr and marketFactor * 2400 agree up to
\* the rounding of the two conversions, i.e. within 2^-51 of their size
C13_RatesInSyncWithinRounding ==
  DWithin(dblData.apr, DMul(dblData.marketFactor, DOfInt(2400)), 51)

\* an edit has left a positive APR that marketFactor * 2400 does not give back
C13_Witness ==
  /\ dblPay.phase = "edit"
  /\ DLess(DZero, dblData.apr)
  /\ DLess(DZero, dblData.marketFactor)
  /\ dblData.apr # DMul(dblData.marketFactor, DOfInt(2400))

(***************************************************************************)
(* The discount fields of the calculator (checked under SpecCalc)          *)
(***************************************************************************)
\* discountAmount = msrp * discount / 100 and capCostPercent = 100 - discount
DiscountConsistent(d) ==
  /\ d.discountAmount = Div(Mul(d.msrp, d.discount), N(100))
  /\ d.capCostPercent = Sub(N(100), d.discount)

DblAmountDerived(d) ==
  /\ DLessEq(DZero, d.msrp)
  /\ DLessEq(DZero, d.discount)
  /\ DLessEq(d.discount, DOfInt(100))
  /\ d.discountAmount = DDiv(DMul(d.msrp, d.discount), DOfInt(100))

\* the vehicle after the amount input is given the amount it shows
DblAmountRetyped(d) ==
  DblWithAmount(d, DOr(d.discountAmount, DZero),
                DblDiscountOfAmount(d.msrp, DOr(d.discountAmount, DZero)))

\* C15 as stated: when the amount derived from a percent d is entered in the
\* amount input, the percent re-derived from it is d again
C15_RoundTrip ==
  [][(dblPay.phase = "edit" /\ DblAmountDerived(dblData)
      /\ dblData' = DblAmountRetyped(dblData))
       => dblData'.discount = dblData.discount]_vars

\* C15 amended: with a positive MSRP the re-derived percent is d up to
\* rounding (within 2^-50 of d); with an MSRP of 0 it is 0 whatever d was
C15_RoundTripWithinRounding ==
  [][(dblPay.phase = "edit" /\ DblAmountDerived(dblData)
      /\ dblData' = DblAmountRetyped(dblData))
       => IF DLess(DZero, dblData.msrp)
          THEN DWithin(dblData'.discount, dblData.discount, 50)
          ELSE dblData'.discount = DZero]_vars

\* the percent 3.5 of an MSRP of 35000 has gone through the round trip and
\* come back as another double
C15_Witness ==
  /\ dblData.msrp = DOfInt(35000)
  /\ dblData.discount # DOfNumber(Fin(7, 2))
  /\ DWithin(dblData.discount, DOfNumber(Fin(7, 2)), 50)
  /\ dblData.discount = DblDiscountOfAmount(dblData.msrp, dblData.discountAmount)

(***************************************************************************)
(* Monotonicity in the residual (checked under SpecCalc on the vehicle     *)
(* being edited)                                                           *)
(***************************************************************************)
\* the residual percentages compared
ResidualSteps == {N(0), N(50), N(60), Fin(121, 2), N(100)}

\* totalMonthlyPayment of getCarPayments for the vehicle with residual r
PaymentAtResidual(car, r) ==
  getCarPayments([car EXCEPT !.residualPercent = r]).totalMonthlyPayment

\* totalMonthlyPayment of getCarPaymentsWithOverride with the override
\* {residualPercent: r}
PaymentAtResidualOverride(car, r) ==
  getCarPaymentsWithOverride(
    car, Undef, [NoOverrides EXCEPT !.residualPercent = r]).totalMonthlyPayment

\* a vehicle without a rate and with a positive term
RateFree(car) == StoredApr(car) = N(0) /\ Less(N(0), car.leaseTerm)

\* C16 as stated: at APR 0 and a positive term the larger of two residual
\* percentages gives the strictly smaller totalMonthlyPayment
C16_ResidualStrictlyDecreasing ==
  (loaded /\ RateFree(data)) =>
    \A r1, r2 \in ResidualSteps :
      Less(r1, r2) =>
        /\ Less(PaymentAtResidual(data, r2), PaymentAtResidual(data, r1))
        /\ Less(PaymentAtResidualOverride(data, r2), PaymentAtResidualOverride(data, r1))

\* C16 amended: the same for a vehicle with a positive MSRP; with an MSRP of
\* 0 the residual does not enter the payment
C16_ResidualDecreasingWithMsrp ==
  (loaded /\ RateFree(data)) =>
    \A r1, r2 \in ResidualSteps :
      Less(r1, r2) =>
        IF Less(N(0), data.msrp)
        THEN /\ Less(PaymentAtResidual(data, r2), PaymentAtResidual(data, r1))
             /\ Less(PaymentAtResidualOverride(data, r2),
                     PaymentAtResidualOverride(data, r1))
        ELSE /\ data.msrp = N(0)
             /\ PaymentAtResidual(data, r2) = PaymentAtResidual(data, r1)
             /\ PaymentAtResidualOverride(data, r2) = PaymentAtResidualOverride(data, r1)

\* a vehicle with an MSRP, no rate and a positive term is in the form, and its
\* payment at a residual of 60.5 is below the one at 60
C16_Witness ==
  /\ loaded
  /\ RateFree(data)
  /\ Less(N(0), data.msrp)
  /\ Less(PaymentAtResidual(data, Fin(121, 2)), PaymentAtResidual(data, N(60)))
  /\ Less(N(0), PaymentAtResidual(data, Fin(121, 2)))

(***************************************************************************)
(* The ids of the collection (checked under SpecCalc)                      *)
(***************************************************************************)
\* C17: whatever vehicles were added, loaded from a file or deleted, with
\* Date.now() free to return the value it returned before, no two vehicles
\* of savedCars.cars have the same id
C17_UniqueIds ==
  \A i, j \in 1..Len(savedCars.cars) :
    savedCars.cars[i].id = savedCars.cars[j].id => i = j

(***************************************************************************)
(* Two pinned vehicles (checked under SpecPin)                             *)
(***************************************************************************)
\* the position of an id in a sequence of ids, 0 when it is not there
RECURSIVE PositionFrom(_, _, _)
PositionFrom(ids, id, i) ==
  IF i > Len(ids) THEN 0 ELSE IF ids[i] = id THEN i ELSE PositionFrom(ids, id, i + 1)
Position(ids, id) == PositionFrom(ids, id, 1)

\* two selected vehicles that carry an override and are in lastSortedOrder
BothPinned(a, b) ==
  /\ a # b
  /\ hasOverride(carOverrides, a) /\ hasOverride(carOverrides, b)
  /\ Position(lastSortedOrder, a) > 0 /\ Position(lastSortedOrder, b) > 0

\* C20: two selected vehicles that both carry an override and are both in
\* lastSortedOrder stand in sortedCars in the order they have in
\* lastSortedOrder
C20_PinnedPairOrder ==
  loaded =>
    \A a, b \in SelectedIds :
      (BothPinned(a, b) /\ Position(lastSortedOrder, a) < Position(lastSortedOrder, b))
        => Position(sortedCars, a) < Position(sortedCars, b)

(***************************************************************************)
(* Vehicles ranked without a place in lastSortedOrder                      *)
(***************************************************************************)
\* the vehicle is ranked by the pinned comparator and has no captured place
Unplaced(carId) ==
  /\ lastSortedOrder # <<>>
  /\ hasOverride(carOverrides, carId)
  /\ OrderGet(lastSortedOrder, carId) = Undef

\* the vehicle carries an override and has a captured place
Placed(carId) ==
  /\ hasOverride(carOverrides, carId)
  /\ OrderGet(lastSortedOrder, carId) # Undef

\* C21: a selected vehicle that carries an override and has no place in
\* lastSortedOrder is ranked after every selected vehicle that carries an
\* override and has a place.
C21_UnplacedAfterPlaced ==
  loaded =>
    \A x, y \in SelectedIds :
      (Unplaced(x) /\ Placed(y)) => Before(sortedCars, y, x)

(***************************************************************************)
(* The editing timer                                                       *)
(***************************************************************************)
\* the step leaves the view waiting out an edit, on a timer started by the
\* step, and no timer started before is left running
EditingRestarted ==
  /\ isEditingOverride'
  /\ editingTimeout' # editingTimeout
  /\ pendingTimers' = {editingTimeout'}

\* isEditingOverride goes back to false by the firing of the timer that the
\* most recent edit started, and of no other
EndsOnLastTimer ==
  (isEditingOverride /\ ~isEditingOverride') =>
    /\ editingTimeout \in pendingTimers
    /\ pendingTimers' = pendingTimers \ {editingTimeout}

\* a step that changes the override of one vehicle: its input or a clear button
VehicleOverrideStep ==
  \/ UpdateAnyOverride
  \/ ClearAnyOverride
  \/ ClearAnyRateOverride

\* C22 as stated: the view starts with isEditingOverride false; every
\* change of an override field of a vehicle, the clear buttons included,
\* sets isEditingOverride and restarts the timer; isEditingOverride is reset
\* only by the timer of the most recent edit.
C22_EveryEditRestarts ==
  /\ ~isEditingOverride
  /\ [][VehicleOverrideStep => EditingRestarted]_vars
  /\ [][EndsOnLastTimer]_vars

\* C22, amended: the view starts with isEditingOverride false; every value
\* typed into an override input of a vehicle (updateCarOverride) sets
\* isEditingOverride, clears the timer of the edit before and starts a new
\* one; at most the timer of the most recent edit is running, and
\* isEditingOverride is reset only by the firing of that timer.
C22_TypedEditRestarts ==
  /\ ~isEditingOverride
  /\ [][UpdateAnyOverride => EditingRestarted]_vars
  /\ [][EndsOnLastTimer]_vars
  /\ [](pendingTimers \subseteq {editingTimeout})

\* a second edit arrived while the timer of the first was running: the
\* view waits on the second timer alone
C22_Witness ==
  /\ isEditingOverride
  /\ editingTimeout = 2
  /\ pendingTimers = {2}

(***************************************************************************)
(* The baseline order                                                      *)
(***************************************************************************)
\* C23: a step that changes lastSortedOrder starts with isEditingOverride
\* false and sets lastSortedOrder to the ids of sortedCars as they are before
\* the step; every step taken while isEditingOverride is true leaves
\* lastSortedOrder as it is.
C23_BaselineFrame ==
  [][/\ isEditingOverride => lastSortedOrder' = lastSortedOrder
     /\ lastSortedOrder' # lastSortedOrder =>
          (~isEditingOverride /\ lastSortedOrder' = sortedCars)]_vars

\* an edit is being waited out, the ranking has moved and the baseline has not
C23_Witness ==
  /\ isEditingOverride
  /\ lastSortedOrder # <<>>
  /\ Len(sortedCars) = Len(lastSortedOrder)
  /\ sortedCars # lastSortedOrder

(***************************************************************************)
(* The ranking after the last edit                                         *)
(***************************************************************************)
\* sortedCars holds the selected vehicles in ascending order of payment
RankedAscending ==
  /\ {sortedCars[i] : i \in 1..Len(sortedCars)} = SelectedIds
  /\ \A i, j \in 1..Len(sortedCars) :
       i < j => ~Less(CurrentPayment(sortedCars[j]), CurrentPayment(sortedCars[i]))

\* no edit of an override is being waited out
Quiescent == loaded /\ ~isEditingOverride /\ pendingTimers = {}

\* C24: once the timer of the last override edit has fired, the ranking
\* shown eventually is ascending by totalMonthlyPayment over all selected
\* vehicles, those with an override included.
C24_ResortedAfterQuiescence == Quiescent ~> RankedAscending

(***************************************************************************)
(* The selection                                                           *)
(***************************************************************************)
\* C25: while the collection of the comparison view holds a vehicle, at
\* least one vehicle is selected and every selected id is the id of a
\* vehicle of the collection, whatever checkboxes, select-all, unselect-all,
\* make buttons and delete buttons were pressed.
C25_SelectionKept ==
  (loaded /\ Len(savedCars.cars) > 0) =>
    /\ selectedCarIds # {}
    /\ selectedCarIds \subseteq IdSet(savedCars.cars)

(***************************************************************************)
(* The three copies of the pipeline                                        *)
(***************************************************************************)
\* the fields that the breakdown of leaseData.ts and ComparisonView.tsx and
\* the metrics of the analysis route both carry
SharedFields == BreakdownFields \cap MetricsFields

ChangedPositions ==
  {i \in 1..Len(savedCars.cars) :
     i > Len(savedCars'.cars) \/ savedCars'.cars[i] # savedCars.cars[i]}

\* C27: the collection written by a lookup that completes holds exactly
\* the vehicles present when it completes, in their order, with at most
\* the looked-up vehicle changed, and that collection is what is saved.
C27_LateLookupKeepsChanges ==
  [][AnyVinLookupSucceeds =>
       /\ IdsOf(savedCars'.cars) = IdsOf(savedCars.cars)
       /\ Cardinality(ChangedPositions) <= 1
       /\ storage' = saveToStorage(savedCars')]_vars

(***************************************************************************)
(* The capture effect terminates                                           *)
(***************************************************************************)
\* C28: with the selection, the overrides and the payments fixed, the
\* capture effect stops after finitely many runs: from some point on
\* lastSortedOrder is the order of sortedCars and stays so.
C28_CaptureTerminates == <>[](sortedCars = lastSortedOrder)

\* the capture has run and has come to rest on a ranking that pins an
\* overridden vehicle out of the order of the payments
C28_Witness ==
  /\ sortedCars = lastSortedOrder
  /\ \E c \in SelectedIds : hasOverride(carOverrides, c)
  /\ \E c \in SelectedIds : ~hasOverride(carOverrides, c)
  /\ ~RankedAscending

\* C29: in the calculator the vehicle being edited equals the entry of the
\* collection whose id is currentCarId, after any sequence of field edits
\* (discount percent, discount amount, APR and money factor included),
\* selections, adds and deletes, so such an edit survives switching to
\* another vehicle and back.
C29_DataIsCurrentEntry ==
  (loaded /\ Len(savedCars.cars) > 0)
    => /\ savedCars.currentCarId \in IdSet(savedCars.cars)
       /\ \E i \in 1..Len(savedCars.cars) :
            /\ savedCars.cars[i].id = savedCars.currentCarId
            /\ savedCars.cars[i] = data

\* the overrides of the vehicle priced, as the finance row reads them
RowOverrides == GetCarOverrides(carOverrides, payCar.id)

\* C30 (first half): the breakdown of every vehicle under every override set
\* reports a consistent rate pair, currentApr = currentMoneyFactor * 2400,
\* from getCarPayments as from getCarPaymentsWithOverride.
C30_PairConsistent ==
  (payPhase \in {"override", "done"})
    => /\ payments.currentApr = Mul(payments.currentMoneyFactor, N(2400))
       /\ paymentsOvr.currentApr = Mul(paymentsOvr.currentMoneyFactor, N(2400))

\* C30 (second half): the APR and the money factor the finance row prints
\* are the pair of the breakdown whose monthlyFinanceCharge it prints.
C30_RowShowsPairUsed ==
  (payPhase \in {"override", "done"})
    => /\ FinanceRowApr(payCar, RowOverrides) = paymentsOvr.currentApr
       /\ FinanceRowMoneyFactor(payCar, RowOverrides) = paymentsOvr.currentMoneyFactor

\* C30: every breakdown reports a consistent rate pair, and the finance row
\* of the comparison table prints the pair that monthlyFinanceCharge was
\* computed with.
C30_ConsistentRatePair == C30_PairConsistent /\ C30_RowShowsPairUsed

=============================================================================
